---- MODULE Spec2Model ----
(***************************************************************************)
(* Model of the BitSerializer archive scopes (CppRestJson, RapidJson and   *)
(* the binary archive stub): one Load or Save call over a document tree,   *)
(* its root/object/array scopes, the value loading of each backend and the *)
(* validation of loaded fields; and the conversion engine the scopes rely  *)
(* on: the ISO-8601 date-time codec and the UTF transcoding.               *)
(***************************************************************************)
EXTENDS Integers, Sequences, FiniteSets, TLC

\* ------------------------------------------------------------------ bounds
\* Longest array of a loaded document, and largest declared size of a saved array.
MaxArrayLen == 2
\* Most values, objects and arrays a Save call puts into its document.
MaxNodes == 3

\* ------------------------------------------------------- program constants
path_separator == "/"

Backends == {"CppRest", "RapidJson", "BinStub"}
Policies == {"ThrowError", "Skip"}
Keys == {"a", "b"}
\* The fields of a loaded class, in the order its Serialize method visits them.
Fields == <<"a", "b">>

\* ---------------------------------------------------------- document nodes
\* One backend-native value. kind is the alternative the node holds; num is
\* the number, boolean (0/1) or timestamp; str the string; keys/items the
\* members of an object (parallel sequences, in insertion order) or the
\* elements of an array; cap is the reserved capacity of a RapidJson array.
MkNode(kind, num, str, keys, items, cap) ==
    [kind |-> kind, num |-> num, str |-> str, keys |-> keys, items |-> items, cap |-> cap]

NullN == MkNode("Null", 0, "", <<>>, <<>>, 0)
BoolN(b) == MkNode("Bool", b, "", <<>>, <<>>, 0)
IntN(v) == MkNode("Int", v, "", <<>>, <<>>, 0)
DoubleN(v) == MkNode("Double", v, "", <<>>, <<>>, 0)
StrN(s) == MkNode("String", 0, s, <<>>, <<>>, 0)
TimeN(t) == MkNode("Timestamp", t, "", <<>>, <<>>, 0)
ObjN(keys, items) == MkNode("Object", 0, "", keys, items, 0)
ArrN(items, cap) == MkNode("Array", 0, "", <<>>, items, cap)

\* The node at an address (the positions, from the root, of the children walked).
RECURSIVE NodeAt(_, _)
NodeAt(doc, addr) ==
    IF addr = <<>> THEN doc ELSE NodeAt(doc.items[Head(addr)], Tail(addr))

\* The document with the node at an address replaced.
RECURSIVE SetAt(_, _, _)
SetAt(doc, addr, n) ==
    IF addr = <<>> THEN n
    ELSE [doc EXCEPT !.items[Head(addr)] = SetAt(@, Tail(addr), n)]

\* Position of the first member with the key, 0 when there is none.
FindMember(node, key) ==
    IF \E i \in 1..Len(node.keys) : node.keys[i] = key
    THEN CHOOSE i \in 1..Len(node.keys) :
            node.keys[i] = key /\ \A j \in 1..(i - 1) : node.keys[j] # key
    ELSE 0

\* ------------------------------------------------------------------ paths
Digit(d) == <<"0", "1", "2", "3", "4", "5", "6", "7", "8", "9">>[d + 1]

\* Convert::ToString of a non-negative index.
RECURSIVE ConvertToString(_)
ConvertToString(n) ==
    IF n < 10 THEN Digit(n) ELSE ConvertToString(n \div 10) \o Digit(n % 10)

\* A scope: kind Root, Object or Array; addr, the node it is bound to (mNode);
\* parent, the position in the scope chain of mParent (0: nullptr); key,
\* mParentKey; mIndex and mSize, the cursor and element count of array scopes.
\* declared is the arraySize argument a Save-mode array scope was opened with.
\* field is the position of the caller that loads through the scope: for an
\* object scope the number of the last field its Serialize method visited, for
\* the root scope 1 once LoadObject has serialized the root value.
MkScope(kind, addr, parent, key, mIndex, mSize, declared) ==
    [kind |-> kind, addr |-> addr, parent |-> parent, key |-> key,
     mIndex |-> mIndex, mSize |-> mSize, declared |-> declared, field |-> 0]

RootScope == MkScope("Root", <<>>, 0, "", 0, 0, 0)

\* The index an array scope appends to its path.
ArrayPathIndex(b, mode, sc, node) ==
    IF b = "CppRest" THEN (IF sc.mIndex = 0 THEN 0 ELSE sc.mIndex - 1)
    ELSE IF b = "RapidJson"
         THEN LET index == IF mode = "Load" THEN sc.mIndex ELSE Len(node.items)
              IN  IF index = 0 THEN 0 ELSE index - 1
    ELSE sc.mIndex

RECURSIVE GetPath(_, _, _, _, _)
\* JsonScopeBase::GetPath, RapidJsonScopeBase::GetPath, BinArchiveStubScopeBase::GetPath
ScopeBaseGetPath(b, mode, doc, scs, i) ==
    LET localPath == IF scs[i].key = "" THEN "" ELSE path_separator \o scs[i].key
    IN  IF scs[i].parent = 0 THEN localPath
        ELSE GetPath(b, mode, doc, scs, scs[i].parent) \o localPath

\* The virtual GetPath of scope i: the array scopes override it.
GetPath(b, mode, doc, scs, i) ==
    IF scs[i].kind = "Array"
    THEN ScopeBaseGetPath(b, mode, doc, scs, i) \o path_separator
            \o ConvertToString(ArrayPathIndex(b, mode, scs[i], NodeAt(doc, scs[i].addr)))
    ELSE ScopeBaseGetPath(b, mode, doc, scs, i)

\* ------------------------------------------------------------ array scopes
\* The element count an array scope is constructed with (JsonArrayScope::mSize).
ArrayScopeSize(b, node) == IF b = "CppRest" THEN Len(node.items) ELSE 0

\* LoadNextItem without its range check: the end of the array goes unreported.
LoadNextItemUnchecked(b, sc, node) ==
    IF sc.mIndex < Len(node.items)
    THEN [err |-> "None", pos |-> sc.mIndex + 1, mIndex |-> sc.mIndex + 1]
    ELSE [err |-> "None", pos |-> 0, mIndex |-> sc.mIndex]

\* Load mode: the next element of an array scope. pos is the position of the
\* element obtained (0: none), mIndex the cursor afterwards.
\* JsonArrayScope::LoadNextItem, RapidJsonArrayScope::NextElement,
\* BinArchiveStubArrayScope::LoadNextItem.
LoadNextItem(b, sc, node) ==
    LET size == IF b = "CppRest" THEN sc.mSize ELSE Len(node.items)
    IN  IF sc.mIndex < size
        THEN [err |-> "None", pos |-> sc.mIndex + 1, mIndex |-> sc.mIndex + 1]
        ELSE IF b = "RapidJson"
             THEN [err |-> "None", pos |-> 0, mIndex |-> sc.mIndex]
             ELSE [err |-> "OutOfRange", pos |-> 0, mIndex |-> sc.mIndex]

\* A sequence of n Null nodes (web::json::value::array(n)).
Nulls(n) == [i \in 1..n |-> NullN]

\* The new array node OpenArrayScope(arraySize) creates in Save mode.
NewArray(b, arraySize) ==
    IF b = "CppRest" THEN ArrN(Nulls(arraySize), 0)
    ELSE IF b = "RapidJson" THEN ArrN(<<>>, arraySize)
    ELSE ArrN(<<>>, 0)

\* Save mode: one element written through an array scope. node is the array
\* afterwards, pos the position of the element written, mIndex the cursor.
\* JsonArrayScope::SaveJsonValue, RapidJsonArrayScope::SaveJsonValue (PushBack
\* of a full array reserves 16 elements, or half as much again), and the Save
\* branch of BinArchiveStubArrayScope::LoadNextItem followed by the emplace.
ArraySaveValue(b, asserts, sc, node, val) ==
    LET n == Len(node.items)
    IN  IF b = "CppRest"
        THEN IF asserts /\ ~(sc.mIndex < n)
             THEN [err |-> "AssertFailed", node |-> node, pos |-> 0, mIndex |-> sc.mIndex]
             ELSE LET grown == IF sc.mIndex < n THEN node.items
                               ELSE node.items \o Nulls(sc.mIndex + 1 - n)
                  IN  [err |-> "None",
                       node |-> [node EXCEPT !.items = [grown EXCEPT ![sc.mIndex + 1] = val]],
                       pos |-> sc.mIndex + 1, mIndex |-> sc.mIndex + 1]
        ELSE IF b = "RapidJson"
        THEN IF asserts /\ ~(n < node.cap)
             THEN [err |-> "AssertFailed", node |-> node, pos |-> 0, mIndex |-> sc.mIndex]
             ELSE LET cap == IF n < node.cap THEN node.cap
                             ELSE IF node.cap = 0 THEN 16
                             ELSE node.cap + (node.cap + 1) \div 2
                  IN  [err |-> "None",
                       node |-> [node EXCEPT !.items = Append(@, val), !.cap = cap],
                       pos |-> n + 1, mIndex |-> sc.mIndex]
        ELSE [err |-> "None", node |-> [node EXCEPT !.items = Append(@, val)],
              pos |-> n + 1, mIndex |-> sc.mIndex + 1]

\* The lookup that falls back to the first member when the key is absent.
LoadValueByKeyOrFirst(b, node, key) ==
    IF FindMember(node, key) = 0 /\ Len(node.keys) > 0 THEN 1 ELSE FindMember(node, key)

\* ----------------------------------------------------------- object scopes
\* Load mode: position of the member with the key, 0 when absent.
\* JsonObjectScope::LoadJsonValue, RapidJsonObjectScope::LoadJsonValue,
\* BinArchiveStubObjectScope::LoadArchiveValueByKey.
LoadValueByKey(b, node, key) == FindMember(node, key)

\* Save mode: one member written through an object scope. node is the object
\* afterwards, pos the position of the member the caller goes on with.
\* JsonObjectScope::SaveJsonValue, RapidJsonObjectScope::SaveJsonValue (with the
\* FindMember of the Open*ScopeImpl), BinArchiveStubObjectScope::AddArchiveValue
\* followed by the emplace into the returned node.
ObjectSaveValue(b, asserts, node, key, val) ==
    LET found == FindMember(node, key)
        added == [node EXCEPT !.keys = Append(@, key), !.items = Append(@, val)]
    IN  IF b = "BinStub"
        THEN IF found # 0
             THEN [err |-> "None", node |-> [node EXCEPT !.items[found] = val], pos |-> found]
             ELSE [err |-> "None", node |-> added, pos |-> Len(node.keys) + 1]
        ELSE IF asserts /\ found # 0
        THEN [err |-> "AssertFailed", node |-> node, pos |-> 0]
        ELSE IF b = "CppRest"
        THEN IF found # 0
             THEN [err |-> "None", node |-> [node EXCEPT !.items[found] = val], pos |-> found]
             ELSE [err |-> "None", node |-> added, pos |-> Len(node.keys) + 1]
        ELSE [err |-> "None", node |-> added,
              pos |-> IF found # 0 THEN found ELSE Len(node.keys) + 1]

\* ----------------------------------------------------------- value loading
IntegralTypes == {"bool", "int8", "uint8", "int32"}
FloatTypes == {"float"}
Types == IntegralTypes \cup FloatTypes \cup {"string"}

\* std::numeric_limits<T>::min() and max() of the integral target types.
TMin(T) == IF T = "int8" THEN -128
           ELSE IF T = "int32" THEN -2147483647 - 1
           ELSE 0
TMax(T) == IF T = "bool" THEN 1
           ELSE IF T = "int8" THEN 127
           ELSE IF T = "uint8" THEN 255
           ELSE 2147483647

\* static_cast<T>(v) of an int v to an integral T: modulo 2^width, and v != 0
\* for bool. Every number of the model fits int, the widest type here.
StaticCast(T, v) ==
    IF T = "bool" THEN (IF v # 0 THEN 1 ELSE 0)
    ELSE IF T = "int8" THEN ((v + 128) % 256) - 128
    ELSE IF T = "uint8" THEN v % 256
    ELSE v

\* The outcome "not loaded" that also resets the target to the default of its type.
NotLoadedReset(prior) == [loaded |-> FALSE, num |-> 0, str |-> "", err |-> "None"]

\* The outcome of loading one value: whether it was loaded, the target
\* afterwards (num for the numeric types, str for strings) and the error raised.
Loaded(num, str) == [loaded |-> TRUE, num |-> num, str |-> str, err |-> "None"]
NotLoaded(prior) == [loaded |-> FALSE, num |-> prior.num, str |-> prior.str, err |-> "None"]
Raised(prior, err) == [loaded |-> FALSE, num |-> prior.num, str |-> prior.str, err |-> err]

\* Detail::SafeNumberCast: the range-checked cast of a loaded number.
SafeNumberCast(v, T, prior, overflowNumberPolicy) ==
    IF T \in FloatTypes \/ (TMin(T) <= v /\ v <= TMax(T))
    THEN Loaded(v, prior.str)
    ELSE IF overflowNumberPolicy = "ThrowError" THEN Raised(prior, "Overflow")
    ELSE NotLoaded(prior)

\* LoadFundamentalValue without the exclusion of Null from the mismatch policy.
StubLoadFundamentalValueNullMismatch(node, T, prior, opts) ==
    IF T \in IntegralTypes /\ node.kind \in {"Int", "Bool"}
    THEN SafeNumberCast(node.num, T, prior, opts.overflow)
    ELSE IF T \in FloatTypes /\ node.kind = "Double"
    THEN SafeNumberCast(node.num, T, prior, opts.overflow)
    ELSE IF opts.mismatch = "ThrowError" THEN Raised(prior, "MismatchedTypes")
    ELSE NotLoaded(prior)

\* BinArchiveStubScopeBase::LoadFundamentalValue
StubLoadFundamentalValue(node, T, prior, opts) ==
    IF node.kind = "Null" THEN NotLoaded(prior)
    ELSE IF T \in IntegralTypes /\ node.kind \in {"Int", "Bool"}
    THEN SafeNumberCast(node.num, T, prior, opts.overflow)
    ELSE IF T \in FloatTypes /\ node.kind = "Double"
    THEN SafeNumberCast(node.num, T, prior, opts.overflow)
    ELSE IF opts.mismatch = "ThrowError" THEN Raised(prior, "MismatchedTypes")
    ELSE NotLoaded(prior)

\* LoadString of the three scope bases.
LoadString(node, prior) ==
    IF node.kind # "String" THEN NotLoaded(prior) ELSE Loaded(prior.num, node.str)

\* JsonScopeBase::LoadFundamentalValue (cpprest)
CppRestLoadFundamentalValue(node, T, prior) ==
    IF T \in IntegralTypes
    THEN IF node.kind \in {"Int", "Double"} THEN Loaded(StaticCast(T, node.num), prior.str)
         ELSE IF node.kind = "Bool" THEN Loaded(node.num, prior.str)
         ELSE NotLoaded(prior)
    ELSE IF T \in FloatTypes /\ node.kind \in {"Int", "Double"}
    THEN Loaded(node.num, prior.str)
    ELSE NotLoaded(prior)

\* RapidJsonScopeBase::LoadFundamentalValue. GetInt() asserts that the number
\* is an int; without the assertion it reads the low 32 bits of a double,
\* which are 0 for the integral doubles of the model.
RapidJsonLoadFundamentalValue(node, T, prior, asserts) ==
    IF node.kind \notin {"Int", "Double"} THEN NotLoaded(prior)
    ELSE IF T \in IntegralTypes
    THEN IF node.kind = "Int" THEN Loaded(StaticCast(T, node.num), prior.str)
         ELSE IF asserts THEN Raised(prior, "AssertFailed")
         ELSE Loaded(StaticCast(T, 0), prior.str)
    ELSE Loaded(node.num, prior.str)

\* SerializeValue(CBinTimestamp&) of the root and array scopes of the stub and
\* SerializeValue(key, CBinTimestamp&) of its object scope, on the node they
\* read: the object scope calls std::get without holds_alternative, which
\* throws std::bad_variant_access for a node of another kind.
StubLoadTimestamp(scopeKind, node, prior) ==
    IF node.kind = "Timestamp" THEN Loaded(node.num, prior.str)
    ELSE IF scopeKind = "Object" THEN Raised(prior, "BadVariantAccess")
    ELSE NotLoaded(prior)

\* SerializeValue of a scope in Load mode, on the node it read: the overload
\* that the target type selects in the scope kind (Root, Object, Array). Only
\* the stub, a binary archive, has the overloads for CBinTimestamp.
LoadValue(b, scopeKind, node, T, prior, opts, asserts) ==
    IF T = "timestamp" THEN StubLoadTimestamp(scopeKind, node, prior)
    ELSE IF T = "string" THEN LoadString(node, prior)
    ELSE IF b = "BinStub" THEN StubLoadFundamentalValue(node, T, prior, opts)
    ELSE IF b = "CppRest"
    THEN IF T = "bool" /\ scopeKind = "Root"
         THEN (IF node.kind = "Bool" THEN Loaded(node.num, prior.str) ELSE NotLoaded(prior))
         ELSE CppRestLoadFundamentalValue(node, T, prior)
    ELSE IF T = "bool"
         THEN (IF node.kind = "Bool" THEN Loaded(node.num, prior.str) ELSE NotLoaded(prior))
         ELSE RapidJsonLoadFundamentalValue(node, T, prior, asserts)

\* ------------------------------------------------------------- validation
\* Required::Validate that never fails.
RequiredValidateNever(value, isLoaded) == ""

\* Required::Validate: the message, or "" for std::nullopt.
RequiredValidate(value, isLoaded) ==
    IF isLoaded THEN "" ELSE "This field is required"

\* Range::Validate with the lower bound excluded.
RangeValidateAboveMin(mMin, mMax, value, isLoaded) ==
    IF value > mMin /\ value < mMax THEN ""
    ELSE "Value must be between " \o ConvertToString(mMin) \o " and " \o ConvertToString(mMax)

\* Range::Validate with the upper bound included.
RangeValidateClosed(mMin, mMax, value, isLoaded) ==
    IF value >= mMin /\ value <= mMax THEN ""
    ELSE "Value must be between " \o ConvertToString(mMin) \o " and " \o ConvertToString(mMax)

\* Range::Validate
RangeValidate(mMin, mMax, value, isLoaded) ==
    IF value >= mMin /\ value < mMax THEN ""
    ELSE "Value must be between " \o ConvertToString(mMin) \o " and " \o ConvertToString(mMax)

\* The validator lists of the modelled fields: none, Required(), and
\* Required(), Range(0, 100) as in the validation sample.
ValidatorLists == {<<>>, <<"Required">>, <<"Required", "Range">>}

\* The messages of the failing validators of one field, in call order.
RECURSIVE ValidationMessages(_, _, _)
ValidationMessages(validators, value, isLoaded) ==
    IF validators = <<>> THEN <<>>
    ELSE LET msg == IF Head(validators) = "Required"
                    THEN RequiredValidate(value, isLoaded)
                    ELSE RangeValidate(0, 100, value, isLoaded)
         IN  (IF msg = "" THEN <<>> ELSE <<msg>>)
                \o ValidationMessages(Tail(validators), value, isLoaded)

\* SerializationContext::AddValidationErrors: the messages are appended to
\* those already recorded at the path.
AddValidationErrors(context, path, msgs) ==
    IF msgs = <<>> THEN context
    ELSE [p \in (DOMAIN context) \cup {path} |->
            IF p = path
            THEN (IF p \in DOMAIN context THEN context[p] ELSE <<>>) \o msgs
            ELSE context[p]]

\* ------------------------------------------------------------------ state
VARIABLES
    backend,    \* the archive the call runs on
    mode,       \* SerializeMode of the call: "Load" or "Save"
    asserts,    \* whether the build keeps assert() (no NDEBUG)
    opts,       \* SerializationOptions: overflow and mismatch policies
    doc,        \* the document tree of the root scope
    scopes,     \* the chain of open scopes, the root scope first
    err,        \* the error that aborted the call, "None" while there is none
    done,       \* the call has returned to its caller
    context,    \* SerializationContext: path -> validation messages
    last,       \* the last scope operation: its arguments and its outcome
    conv,       \* the conversion engine's call chain: values, functions applied, error
    cont,       \* the resizable container a Load call fills from an array scope
    env         \* around the call: its root scope, input source, output sink, earlier calls

vars == <<backend, mode, asserts, opts, doc, scopes, err, done, context, last, conv, cont, env>>
archiveVars == <<backend, mode, asserts, opts, doc, scopes, err, done, context, last, cont, env>>
callVars == <<backend, mode, asserts, opts>>

\* The documents a Load call is given.
LeafVals == {NullN, BoolN(1), IntN(-129), IntN(-128), IntN(0), IntN(2), IntN(127),
             IntN(128), IntN(255), IntN(256), DoubleN(100), StrN("abc")}
ArrayElems == {NullN, IntN(1), StrN("abc")}
ObjVals == {NullN, IntN(128), StrN("abc")}
ArrayDocs == UNION {[1..n -> ArrayElems] : n \in 0..MaxArrayLen}
PathDoc == ObjN(<<"a">>, <<ArrN(<<ObjN(<<"b">>, <<IntN(1)>>)>>, 1)>>)
LoadDocs ==
    {ArrN(items, Len(items)) : items \in ArrayDocs}
        \cup {ObjN(<<"a", "b">>, <<v, IntN(5)>>) : v \in ObjVals}
        \cup {ObjN(<<"b">>, <<IntN(5)>>), PathDoc}
        \cup LeafVals

\* The values a Save call writes.
SaveVals == {IntN(1)}

\* The target of a load before the call: the type's default, or a value set earlier.
Prior(T, p) ==
    IF T = "string" THEN [num |-> 0, str |-> IF p = 0 THEN "" ELSE "old"]
    ELSE [num |-> IF p = 0 THEN 0 ELSE IF T = "bool" THEN 1 ELSE 7, str |-> ""]

NoResult == [loaded |-> FALSE, num |-> 0, str |-> "", err |-> "None"]
NoPrior == [num |-> 0, str |-> ""]

\* What a Load operation read: the kind and value of the archived node, kind
\* "None" when there was no node to read.
Src(node) == [kind |-> node.kind, num |-> node.num, str |-> node.str]
NoSrc == [kind |-> "None", num |-> 0, str |-> ""]

\* The record of one scope operation. present: the member with the key, or the
\* next element of the array, was there before the operation; idx and size: the
\* cursor of the array scope and the element count (Load) or declared size
\* (Save) before the operation; count: the members of the object or the
\* elements of the array after it; src: what a Load operation read.
MkLast(op, key, T, prior, r, opened, path, present, idx, size, count, validators, src) ==
    [op |-> op, key |-> key, ttype |-> T, priorNum |-> prior.num, priorStr |-> prior.str,
     loaded |-> r.loaded, num |-> r.num, str |-> r.str, opened |-> opened, path |-> path,
     present |-> present, idx |-> idx, size |-> size, count |-> count,
     validators |-> validators, src |-> src]

\* The record of an operation without value, key or cursor.
Op(op) == MkLast(op, "", "", NoPrior, NoResult, FALSE, "", FALSE, 0, 0, 0, <<>>, NoSrc)

\* No conversion is under way: an archive call is modelled on its own.
NoConv == [vals |-> <<>>, fns |-> <<>>, err |-> "None"]

NoLast == Op("none")

\* The input of a Load call: a string or a stream, its text and, for a stream,
\* the encoding DetectEncoding finds. form "none": the call has no such input.
Source(form, text, utfType) == [form |-> form, text |-> text, utfType |-> utfType]

\* The output of a Save call: mOutput ("nullptr", "string" or "stream"), the
\* number of times the string or stream was written, whether the BOM went
\* first, and the tree whose serialization it holds.
Sink(mOutput, writes, bom, content) ==
    [mOutput |-> mOutput, writes |-> writes, bom |-> bom, content |-> content]

\* A call on its own, with its root scope constructed and nothing around it.
\* writeBom is streamOptions.writeBom, call the number of the call, earlier
\* the context the call before it left, keys the keys the caller writes under,
\* types the types of the values the caller loads.
NoEnv == [root |-> TRUE, source |-> Source("none", "", "Utf8"),
          sink |-> Sink("nullptr", 0, FALSE, NullN), writeBom |-> FALSE,
          call |-> 1, earlier |-> <<>>, keys |-> Keys, types |-> Types]

Init ==
    /\ backend \in Backends
    /\ mode \in {"Load", "Save"}
    /\ asserts \in BOOLEAN
    /\ opts \in [overflow : Policies, mismatch : Policies]
    /\ IF mode = "Load"
       THEN doc \in LoadDocs
       ELSE doc = NullN /\ opts = [overflow |-> "ThrowError", mismatch |-> "ThrowError"]
    /\ scopes = <<RootScope>>
    /\ err = "None"
    /\ done = FALSE
    /\ context = <<>>
    /\ last = NoLast
    /\ conv = NoConv
    /\ cont = <<>>
    /\ env = NoEnv

\* The call has a root scope, has not failed and has not returned.
Running == err = "None" /\ ~done /\ env.root

\* The last scope is bound to a node of its own kind. RapidJson's Open*ScopeImpl
\* binds the new scope to the first member with the key (FindMember), which
\* after a duplicate write without assert() is the older member.
ScopeIntact == NodeAt(doc, scopes[Len(scopes)].addr).kind = scopes[Len(scopes)].kind
Top == scopes[Len(scopes)]
TopNode == NodeAt(doc, Top.addr)
TopPath == GetPath(backend, mode, doc, scopes, Len(scopes))

\* The scope chain with the cursor of its last scope moved.
WithIndex(scs, mIndex) == [scs EXCEPT ![Len(scs)].mIndex = mIndex]

\* The scope chain with the Serialize method of its last scope at field i.
WithField(scs, i) == [scs EXCEPT ![Len(scs)].field = i]

\* The scope chain with a child scope opened from its last scope. A scope
\* opened from the root scope is constructed without parent.
Push(scs, kind, addr, key, node, declared) ==
    Append(scs, MkScope(kind, addr,
                        IF scs[Len(scs)].kind = "Root" THEN 0 ELSE Len(scs),
                        key, 0,
                        IF kind = "Array" THEN ArrayScopeSize(backend, node) ELSE 0,
                        declared))

\* The values, objects and arrays of a document.
RECURSIVE Nodes(_)
RECURSIVE NodesIn(_)
NodesIn(items) == IF items = <<>> THEN 0 ELSE Nodes(Head(items)) + NodesIn(Tail(items))
Nodes(node) ==
    IF node.kind = "Null" THEN 0
    ELSE IF node.kind \in {"Object", "Array"} THEN 1 + NodesIn(node.items)
    ELSE 1

\* The elements written through a Save-mode array scope so far.
WrittenCount(b, sc, node) == IF b = "RapidJson" THEN Len(node.items) ELSE sc.mIndex

\* Serialize(archive, KeyValue(key, value, validators...)) after the archive's
\* SerializeValue returned r: on Load every validator is called once with the
\* value and the loaded flag, and the failures are recorded at the field's path.
SerializeKeyValue(ctx, path, validators, r) ==
    AddValidationErrors(ctx, path, ValidationMessages(validators, r.num, r.loaded))

\* ---------------------------------------------------------------- actions
\* RootScope::SerializeValue
RootSerializeValue ==
    /\ UNCHANGED <<conv, cont, env>>
    /\ Running /\ Top.kind = "Root"
    /\ \/ /\ mode = "Load" /\ Top.field = 0
          /\ \E T \in env.types, p \in {0, 1} :
                LET prior == Prior(T, p)
                    r == LoadValue(backend, "Root", doc, T, prior, opts, asserts)
                IN  /\ err' = r.err
                    /\ scopes' = WithField(scopes, 1)
                    /\ last' = MkLast("RootSerializeValue", "", T, prior, r, FALSE,
                                      TopPath, TRUE, 0, 0, 0, <<>>, Src(doc))
          /\ UNCHANGED doc
       \/ /\ mode = "Save"
          /\ \E v \in SaveVals :
                LET refused == backend = "RapidJson" /\ asserts /\ doc.kind # "Null"
                IN  /\ err' = IF refused THEN "AssertFailed" ELSE "None"
                    /\ doc' = IF refused THEN doc ELSE v
                    /\ last' = [Op("RootSerializeValue") EXCEPT
                                    !.present = doc.kind # "Null", !.path = TopPath]
          /\ UNCHANGED scopes
    /\ UNCHANGED <<callVars, done, context>>

\* RootScope::OpenObjectScope and RootScope::OpenArrayScope(arraySize)
RootOpenScope(kind, arraySize) ==
    /\ UNCHANGED <<conv, cont, env>>
    /\ Running /\ Top.kind = "Root"
    /\ \/ /\ mode = "Load" /\ Top.field = 0
          /\ scopes' = IF doc.kind = kind
                       THEN Push(WithField(scopes, 1), kind, <<>>, "", doc, 0)
                       ELSE WithField(scopes, 1)
          /\ last' = [Op("RootOpen" \o kind) EXCEPT !.opened = doc.kind = kind]
          /\ UNCHANGED <<doc, err>>
       \/ /\ mode = "Save"
          /\ LET refused == backend = "RapidJson" /\ asserts /\ doc.kind # "Null"
                 node == IF kind = "Object" THEN ObjN(<<>>, <<>>)
                         ELSE NewArray(backend, arraySize)
             IN  /\ err' = IF refused THEN "AssertFailed" ELSE "None"
                 /\ doc' = IF refused THEN doc ELSE node
                 /\ scopes' = IF refused THEN scopes
                              ELSE Push(scopes, kind, <<>>, "", node, arraySize)
                 /\ last' = [Op("RootOpen" \o kind) EXCEPT
                                !.opened = ~refused, !.present = doc.kind # "Null"]
    /\ UNCHANGED <<callVars, done, context>>

RootOpenObjectScope == RootOpenScope("Object", 0)
RootOpenArrayScope == \E arraySize \in 0..MaxArrayLen : RootOpenScope("Array", arraySize)

\* ArrayScope::SerializeValue
ArrSerializeValue ==
    /\ UNCHANGED <<conv, cont, env>>
    /\ Running /\ Top.kind = "Array" /\ ScopeIntact
    /\ \/ /\ mode = "Load"
          /\ \E T \in env.types, p \in {0, 1} :
                LET prior == Prior(T, p)
                    nx == LoadNextItem(backend, Top, TopNode)
                    r == IF nx.err # "None" THEN Raised(prior, nx.err)
                         ELSE IF nx.pos = 0 THEN NotLoaded(prior)
                         ELSE LoadValue(backend, "Array", TopNode.items[nx.pos], T,
                                        prior, opts, asserts)
                    scs == WithIndex(scopes, nx.mIndex)
                IN  /\ err' = r.err
                    /\ scopes' = scs
                    /\ last' = MkLast("ArrSerializeValue", "", T, prior, r, FALSE,
                                      GetPath(backend, mode, doc, scs, Len(scs)),
                                      nx.pos # 0, Top.mIndex, Len(TopNode.items),
                                      Len(TopNode.items), <<>>,
                                      IF nx.pos # 0 THEN Src(TopNode.items[nx.pos])
                                      ELSE NoSrc)
          /\ UNCHANGED doc
       \/ /\ mode = "Save"
          /\ Nodes(doc) < MaxNodes
          /\ \E v \in SaveVals :
                LET w == ArraySaveValue(backend, asserts, Top, TopNode, v)
                IN  /\ err' = w.err
                    /\ doc' = SetAt(doc, Top.addr, w.node)
                    /\ scopes' = WithIndex(scopes, w.mIndex)
                    /\ last' = [Op("ArrSerializeValue") EXCEPT
                                    !.idx = WrittenCount(backend, Top, TopNode),
                                    !.size = Top.declared,
                                    !.count = Len(w.node.items)]
    /\ UNCHANGED <<callVars, done, context>>

\* ArrayScope::OpenObjectScope and ArrayScope::OpenArrayScope(arraySize)
ArrOpenScope(kind, arraySize) ==
    /\ UNCHANGED <<conv, cont, env>>
    /\ Running /\ Top.kind = "Array" /\ ScopeIntact
    /\ \/ /\ mode = "Load"
          /\ LET nx == LoadNextItem(backend, Top, TopNode)
                 scs == WithIndex(scopes, nx.mIndex)
                 addr == Append(Top.addr, nx.pos)
                 opened == nx.pos # 0 /\ TopNode.items[nx.pos].kind = kind
             IN  /\ err' = nx.err
                 /\ scopes' = IF opened
                              THEN Push(scs, kind, addr, "", NodeAt(doc, addr), 0)
                              ELSE scs
                 /\ last' = [Op("ArrOpen" \o kind) EXCEPT
                                !.opened = opened, !.present = nx.pos # 0,
                                !.path = GetPath(backend, mode, doc, scs, Len(scs)),
                                !.idx = Top.mIndex, !.size = Len(TopNode.items),
                                !.count = Len(TopNode.items)]
          /\ UNCHANGED doc
       \/ /\ mode = "Save"
          /\ Nodes(doc) < MaxNodes
          /\ LET node == IF kind = "Object" THEN ObjN(<<>>, <<>>)
                         ELSE NewArray(backend, arraySize)
                 w == ArraySaveValue(backend, asserts, Top, TopNode, node)
                 scs == WithIndex(scopes, w.mIndex)
             IN  /\ err' = w.err
                 /\ doc' = SetAt(doc, Top.addr, w.node)
                 /\ scopes' = IF w.err # "None" THEN scs
                              ELSE Push(scs, kind, Append(Top.addr, w.pos), "", node,
                                        arraySize)
                 /\ last' = [Op("ArrOpen" \o kind) EXCEPT
                                !.opened = w.err = "None",
                                !.idx = WrittenCount(backend, Top, TopNode),
                                !.size = Top.declared,
                                !.count = Len(w.node.items)]
    /\ UNCHANGED <<callVars, done, context>>

ArrOpenObjectScope == ArrOpenScope("Object", 0)
ArrOpenArrayScope == \E arraySize \in 0..MaxArrayLen : ArrOpenScope("Array", arraySize)

\* ObjectScope::SerializeValue(key, value), called for a KeyValue with its validators
ObjSerializeValue ==
    /\ UNCHANGED <<conv, cont, env>>
    /\ Running /\ Top.kind = "Object" /\ ScopeIntact
    /\ \/ /\ mode = "Load"
          /\ \E i \in (Top.field + 1)..Len(Fields), T \in env.types, p \in {0, 1},
                validators \in ValidatorLists :
                LET key == Fields[i]
                    prior == Prior(T, p)
                    pos == LoadValueByKey(backend, TopNode, key)
                    r == IF pos = 0 THEN NotLoaded(prior)
                         ELSE LoadValue(backend, "Object", TopNode.items[pos], T, prior,
                                        opts, asserts)
                    path == TopPath \o path_separator \o key
                IN  /\ Len(validators) = 2 => T \in {"int8", "uint8", "int32"}
                    /\ err' = r.err
                    /\ context' = IF r.err # "None" THEN context
                                  ELSE SerializeKeyValue(context, path, validators, r)
                    /\ scopes' = WithField(scopes, i)
                    /\ last' = MkLast("ObjSerializeValue", key, T, prior, r, FALSE, path,
                                      pos # 0, 0, 0, Len(TopNode.keys), validators,
                                      IF pos # 0 THEN Src(TopNode.items[pos]) ELSE NoSrc)
          /\ UNCHANGED doc
       \/ /\ mode = "Save"
          /\ Nodes(doc) < MaxNodes
          /\ \E key \in env.keys, v \in SaveVals :
                LET w == ObjectSaveValue(backend, asserts, TopNode, key, v)
                IN  /\ err' = w.err
                    /\ doc' = SetAt(doc, Top.addr, w.node)
                    /\ last' = [Op("ObjSerializeValue") EXCEPT
                                    !.key = key,
                                    !.path = TopPath \o path_separator \o key,
                                    !.present = FindMember(TopNode, key) # 0,
                                    !.count = Len(w.node.keys)]
          /\ UNCHANGED <<context, scopes>>
    /\ UNCHANGED <<callVars, done>>

\* ObjectScope::OpenObjectScope(key) and ObjectScope::OpenArrayScope(key, arraySize)
ObjOpenScope(kind, arraySize) ==
    /\ UNCHANGED <<conv, cont, env>>
    /\ Running /\ Top.kind = "Object" /\ ScopeIntact
    /\ \E key \in env.keys :
        \/ /\ mode = "Load"
           /\ \E i \in (Top.field + 1)..Len(Fields) : key = Fields[i]
           /\ LET pos == LoadValueByKey(backend, TopNode, key)
                  addr == Append(Top.addr, pos)
                  opened == pos # 0 /\ TopNode.items[pos].kind = kind
                  scs == WithField(scopes, CHOOSE i \in 1..Len(Fields) : Fields[i] = key)
              IN  /\ scopes' = IF opened
                               THEN Push(scs, kind, addr, key, NodeAt(doc, addr), 0)
                               ELSE scs
                  /\ last' = [Op("ObjOpen" \o kind) EXCEPT
                                 !.key = key, !.opened = opened, !.present = pos # 0,
                                 !.path = TopPath \o path_separator \o key]
           /\ UNCHANGED <<doc, err>>
        \/ /\ mode = "Save"
           /\ Nodes(doc) < MaxNodes
           /\ LET node == IF kind = "Object" THEN ObjN(<<>>, <<>>)
                          ELSE NewArray(backend, arraySize)
                  w == ObjectSaveValue(backend, asserts, TopNode, key, node)
              IN  /\ err' = w.err
                  /\ doc' = SetAt(doc, Top.addr, w.node)
                  /\ scopes' = IF w.err # "None" THEN scopes
                               ELSE Push(scopes, kind, Append(Top.addr, w.pos), key,
                                         w.node.items[w.pos], arraySize)
                  /\ last' = [Op("ObjOpen" \o kind) EXCEPT
                                 !.key = key, !.opened = w.err = "None",
                                 !.path = TopPath \o path_separator \o key,
                                 !.present = FindMember(TopNode, key) # 0,
                                 !.count = Len(w.node.keys)]
    /\ UNCHANGED <<callVars, done, context>>

ObjOpenObjectScope == ObjOpenScope("Object", 0)
ObjOpenArrayScope == \E arraySize \in 0..MaxArrayLen : ObjOpenScope("Array", arraySize)

\* Any operation of a scope bound to a node of another kind: GetObject() or
\* GetArray() of such a node is undefined without assert(), the call is lost.
UseMismatchedScope ==
    /\ UNCHANGED <<conv, cont, env>>
    /\ Running /\ Top.kind # "Root" /\ ~ScopeIntact
    /\ err' = "Undefined"
    /\ last' = Op("UseMismatchedScope")
    /\ UNCHANGED <<callVars, doc, scopes, done, context>>

\* The innermost scope goes out of scope; its parent is used again.
CloseScope ==
    /\ UNCHANGED <<conv, cont, env>>
    /\ Running /\ Len(scopes) > 1
    /\ scopes' = SubSeq(scopes, 1, Len(scopes) - 1)
    /\ last' = Op("CloseScope")
    /\ UNCHANGED <<callVars, doc, err, done, context>>

\* The end of LoadObject as the archive tests use it: the scopes are gone and
\* a ValidationException (FailedValidation) is thrown when the context holds errors.
LoadObjectEnd ==
    /\ UNCHANGED <<conv, cont, env>>
    /\ Running /\ mode = "Load"
    /\ scopes' = <<RootScope>>
    /\ done' = TRUE
    /\ err' = IF DOMAIN context # {} THEN "FailedValidation" ELSE "None"
    /\ last' = Op("LoadObject")
    /\ UNCHANGED <<callVars, doc, context>>

\* The end of LoadObject as the validation sample uses it: the call returns and
\* the caller reads Context.IsValid() and Context.GetValidationErrors().
LoadObjectEndContext ==
    /\ UNCHANGED <<conv, cont, env>>
    /\ Running /\ mode = "Load"
    /\ scopes' = <<RootScope>>
    /\ done' = TRUE
    /\ last' = Op("LoadObjectContext")
    /\ UNCHANGED <<callVars, doc, err, context>>

\* The end of SaveObject.
SaveObjectEnd ==
    /\ UNCHANGED <<conv, cont, env>>
    /\ Running /\ mode = "Save"
    /\ scopes' = <<RootScope>>
    /\ done' = TRUE
    /\ last' = Op("SaveObject")
    /\ UNCHANGED <<callVars, doc, err, context>>

Next ==
    \/ RootSerializeValue
    \/ RootOpenObjectScope
    \/ RootOpenArrayScope
    \/ ArrSerializeValue
    \/ ArrOpenObjectScope
    \/ ArrOpenArrayScope
    \/ ObjSerializeValue
    \/ ObjOpenObjectScope
    \/ ObjOpenArrayScope
    \/ UseMismatchedScope
    \/ CloseScope
    \/ LoadObjectEnd
    \/ LoadObjectEndContext
    \/ SaveObjectEnd

Spec == Init /\ [][Next]_vars

\* ------------------------------------------------------------- properties
ArrayOps == {"ArrSerializeValue", "ArrOpenObject", "ArrOpenArray"}
ObjectOps == {"ObjSerializeValue", "ObjOpenObject", "ObjOpenArray"}
LoadValueOps == {"RootSerializeValue", "ArrSerializeValue", "ObjSerializeValue"}

\* C1: in Load mode an element operation (SerializeValue, OpenObjectScope,
\* OpenArrayScope) of a cpprest or BinArchiveStub array scope over n elements
\* obtains an element without OutOfRange while fewer than n elements were
\* consumed, and raises OutOfRange once all n were: the first n operations
\* succeed, the (n+1)-th raises OutOfRange.
C1_ArrayLoadOutOfRange ==
    (mode = "Load" /\ backend \in {"CppRest", "BinStub"} /\ last.op \in ArrayOps) =>
        /\ last.idx <= last.size
        /\ last.idx < last.size => (last.present /\ err # "OutOfRange")
        /\ last.idx = last.size => (~last.present /\ err = "OutOfRange")

\* A third element operation on a two-element array raised OutOfRange.
C1_Witness ==
    /\ mode = "Load" /\ backend \in {"CppRest", "BinStub"} /\ last.op \in ArrayOps
    /\ last.size = 2 /\ last.idx = 2 /\ err = "OutOfRange"

\* C2: in Save mode, in a build that keeps assert(), writing a member under a
\* key the object scope already holds (SerializeValue, OpenObjectScope or
\* OpenArrayScope) is stopped as a contract violation in every backend; it
\* never succeeds.
C2_DuplicateKeyDetected ==
    (mode = "Save" /\ asserts /\ last.op \in ObjectOps /\ last.present) =>
        err = "AssertFailed"

\* C3: in Save mode, in a build that keeps assert(), an element write
\* (SerializeValue, OpenObjectScope or OpenArrayScope) to an array scope that
\* already took as many writes as its declared size is stopped as a programmer
\* error in every backend, and the array never holds more elements than the
\* declared size.
C3_ArrayCapacityEnforced ==
    (mode = "Save" /\ asserts /\ last.op \in ArrayOps) =>
        /\ last.idx >= last.size => err = "AssertFailed"
        /\ last.count <= last.size

\* C4: loading {"a":[{"b":1}]} through the root object, the array a and its
\* first element, the path of field b is /a/0/b in every backend.
C4_NestedFieldPath ==
    (mode = "Load" /\ doc = PathDoc /\ Len(scopes) = 4
        /\ last.op = "ObjSerializeValue" /\ last.key = "b") =>
        last.path = "/a/0/b"

\* C5: under OverflowNumberPolicy::ThrowError, loading an archived integer v
\* into a narrower or differently-signed integer type T raises Overflow iff v
\* is outside [min(T), max(T)]; a v inside, the boundaries included, is loaded
\* with its exact value, and a v outside leaves the target as it was.
C5_OverflowDetected ==
    (mode = "Load" /\ opts.overflow = "ThrowError" /\ last.op \in LoadValueOps
        /\ last.ttype \in {"int8", "uint8"} /\ last.src.kind = "Int") =>
        IF last.src.num < TMin(last.ttype) \/ last.src.num > TMax(last.ttype)
        THEN err = "Overflow" /\ ~last.loaded /\ last.num = last.priorNum
        ELSE err = "None" /\ last.loaded /\ last.num = last.src.num

\* C6: under MismatchedTypesPolicy::ThrowError, loading a string into a bool,
\* integer or float target, or a number into a string target, aborts the call
\* with MismatchedTypes.
C6_MismatchedTypesThrown ==
    (mode = "Load" /\ opts.mismatch = "ThrowError" /\ last.op \in LoadValueOps
        /\ \/ last.src.kind = "String" /\ last.ttype \in IntegralTypes \cup FloatTypes
           \/ last.src.kind \in {"Int", "Double"} /\ last.ttype = "string") =>
        err = "MismatchedTypes"

C8_OverflowSkipped ==
    (mode = "Load" /\ opts.overflow = "Skip" /\ last.op = "ObjSerializeValue"
        /\ last.ttype \in {"int8", "uint8"} /\ last.src.kind = "Int"
        /\ (last.src.num < TMin(last.ttype) \/ last.src.num > TMax(last.ttype))
        /\ last.validators = <<"Required">>) =>
        /\ err = "None"
        /\ ~last.loaded /\ last.num = last.priorNum
        /\ last.path \in DOMAIN context

\* The field of C9: the string "abc" read into an integer field that holds its
\* default 0 and is validated with Required() and Range(0, 100), under
\* MismatchedTypesPolicy::Skip.
C9_Field ==
    /\ mode = "Load" /\ opts.mismatch = "Skip" /\ last.op = "ObjSerializeValue"
    /\ last.src.kind = "String" /\ last.src.str = "abc"
    /\ last.ttype \in {"int8", "uint8", "int32"} /\ last.priorNum = 0
    /\ last.validators = <<"Required", "Range">>

C10_State ==
    /\ (mode = "Load" /\ done /\ last.op = "LoadObject") =>
            /\ err \in {"None", "FailedValidation"}
            /\ err = "None" <=> DOMAIN context = {}
    /\ (mode = "Load" /\ done /\ last.op = "LoadObjectContext") => err = "None"
    /\ err = "FailedValidation" => (done /\ last.op = "LoadObject")
    /\ (mode = "Load" /\ last.op = "ObjSerializeValue" /\ err = "None"
            /\ last.validators # <<>> /\ ~last.loaded) =>
            last.path \in DOMAIN context

\* No step loses or changes a failure the context already holds.
C10_Step ==
    \A p \in DOMAIN context :
        /\ p \in DOMAIN context'
        /\ Len(context'[p]) >= Len(context[p])
        /\ SubSeq(context'[p], 1, Len(context[p])) = context[p]

MaxConvSteps == 2
\* Days on each side of the epoch whose every sampled second is an input.
MaxDay == 2

\* C++ integer division and remainder: the quotient is truncated toward zero.
Quot(a, b) == IF a >= 0 \/ a % b = 0 THEN a \div b ELSE (a \div b) + 1
Rem(a, b) == a - b * Quot(a, b)

\* struct tm as the codec fills it: the civil year, month 1..12, day 1..31.
Tm(year, mon, mday, hour, min, sec) ==
    [tm_year |-> year, tm_mon |-> mon, tm_mday |-> mday,
     tm_hour |-> hour, tm_min |-> min, tm_sec |-> sec]

\* The mutation of UnixTimeToUtc that leaves the day count of a time before
\* the epoch as the truncating division gives it.
UnixTimeToUtcNoAdjust(dateTime) ==
    LET d0 == Quot(dateTime, 86400)
        time == dateTime - d0 * 86400
        days == d0
        z == days + 719468
        era == Quot(IF z >= 0 THEN z ELSE z - 146096, 146097)
        doe == z - era * 146097
        yoe == (doe - doe \div 1460 + doe \div 36524 - doe \div 146096) \div 365
        y == yoe + era * 400
        doy == doe - (365 * yoe + yoe \div 4 - yoe \div 100)
        mp == (5 * doy + 2) \div 153
        d == doy - (153 * mp + 2) \div 5 + 1
        m == IF mp < 10 THEN mp + 3 ELSE mp - 9
        hour0 == Quot(time, 3600)
        min0 == Quot(Rem(time, 3600), 60)
        sec0 == Rem(time, 60)
        sec == IF time < 0 /\ sec0 < 0 THEN sec0 + 60 ELSE sec0
        min1 == IF time < 0 THEN min0 + (IF sec = 0 THEN 60 ELSE 59) ELSE min0
        min == IF time < 0 /\ min1 = 60 THEN 0 ELSE min1
        hour == IF time < 0 THEN hour0 + (IF min1 = 60 THEN 24 ELSE 23) ELSE hour0
    IN  Tm(y + (IF m <= 2 THEN 1 ELSE 0), m, d, hour, min, sec)

\* The mutation of UnixTimeToUtc that counts the months from March without
\* wrapping January and February.
UnixTimeToUtcFromMarch(dateTime) ==
    LET d0 == Quot(dateTime, 86400)
        time == dateTime - d0 * 86400
        days == IF time < 0 THEN d0 - 1 ELSE d0
        z == days + 719468
        era == Quot(IF z >= 0 THEN z ELSE z - 146096, 146097)
        doe == z - era * 146097
        yoe == (doe - doe \div 1460 + doe \div 36524 - doe \div 146096) \div 365
        y == yoe + era * 400
        doy == doe - (365 * yoe + yoe \div 4 - yoe \div 100)
        mp == (5 * doy + 2) \div 153
        d == doy - (153 * mp + 2) \div 5 + 1
        m == mp + 3
        hour0 == Quot(time, 3600)
        min0 == Quot(Rem(time, 3600), 60)
        sec0 == Rem(time, 60)
        sec == IF time < 0 /\ sec0 < 0 THEN sec0 + 60 ELSE sec0
        min1 == IF time < 0 THEN min0 + (IF sec = 0 THEN 60 ELSE 59) ELSE min0
        min == IF time < 0 /\ min1 = 60 THEN 0 ELSE min1
        hour == IF time < 0 THEN hour0 + (IF min1 = 60 THEN 24 ELSE 23) ELSE hour0
    IN  Tm(y + (IF m <= 2 THEN 1 ELSE 0), m, d, hour, min, sec)

\* UnixTimeToUtc: Unix time to the civil date and clock time. doe is in
\* 0..146096, so its cast to unsigned keeps the value.
UnixTimeToUtc(dateTime) ==
    LET d0 == Quot(dateTime, 86400)
        time == dateTime - d0 * 86400
        days == IF time < 0 THEN d0 - 1 ELSE d0
        z == days + 719468
        era == Quot(IF z >= 0 THEN z ELSE z - 146096, 146097)
        doe == z - era * 146097
        yoe == (doe - doe \div 1460 + doe \div 36524 - doe \div 146096) \div 365
        y == yoe + era * 400
        doy == doe - (365 * yoe + yoe \div 4 - yoe \div 100)
        mp == (5 * doy + 2) \div 153
        d == doy - (153 * mp + 2) \div 5 + 1
        m == IF mp < 10 THEN mp + 3 ELSE mp - 9
        hour0 == Quot(time, 3600)
        min0 == Quot(Rem(time, 3600), 60)
        sec0 == Rem(time, 60)
        sec == IF time < 0 /\ sec0 < 0 THEN sec0 + 60 ELSE sec0
        min1 == IF time < 0 THEN min0 + (IF sec = 0 THEN 60 ELSE 59) ELSE min0
        min == IF time < 0 /\ min1 = 60 THEN 0 ELSE min1
        hour == IF time < 0 THEN hour0 + (IF min1 = 60 THEN 24 ELSE 23) ELSE hour0
    IN  Tm(y + (IF m <= 2 THEN 1 ELSE 0), m, d, hour, min, sec)

\* UtcToUnixTime: the civil date and clock time to Unix time, by way of the
\* days since the epoch (the constant days of the code). m, d, yoe, doy
\* and doe are unsigned in the code; the only value below zero they can take
\* (d - 1 for day 0) wraps and is undone by the cast of doe back to int.
UtcToDays(utc) ==
    LET y == utc.tm_year - (IF utc.tm_mon <= 2 THEN 1 ELSE 0)
        m == utc.tm_mon
        d == utc.tm_mday
        era == Quot(IF y >= 0 THEN y ELSE y - 399, 400)
        yoe == y - era * 400
        doy == (153 * (IF m > 2 THEN m - 3 ELSE m + 9) + 2) \div 5 + d - 1
        doe == yoe * 365 + yoe \div 4 - yoe \div 100 + doy
    IN  era * 146097 + doe - 719468
UtcToUnixTime(utc) ==
    LET days == UtcToDays(utc)
        time == utc.tm_hour * 3600 + utc.tm_min * 60 + utc.tm_sec
    IN  days * 86400 + time

\* struct tm_ext: tm and the milliseconds.
TmExt(utc, ms) ==
    [tm_year |-> utc.tm_year, tm_mon |-> utc.tm_mon, tm_mday |-> utc.tm_mday,
     tm_hour |-> utc.tm_hour, tm_min |-> utc.tm_min, tm_sec |-> utc.tm_sec, ms |-> ms]

\* Text is a sequence of characters. A string_view covers text; after is the
\* character its data() holds behind the last one: "NUL" for a whole
\* std::string or literal, the next character of the buffer for a part of one.
Str(text, after) == [text |-> text, after |-> after]
DigitChars == {"0", "1", "2", "3", "4", "5", "6", "7", "8", "9"}
DigitValue(c) == CHOOSE d \in 0..9 : Digit(d) = c

\* snprintf's %0wd of a number that is not negative.
RECURSIVE DecDigits(_)
DecDigits(n) == IF n < 10 THEN <<Digit(n)>> ELSE Append(DecDigits(n \div 10), Digit(n % 10))
Pad(n, w) == [i \in 1..(w - Len(DecDigits(n))) |-> "0"] \o DecDigits(n)

\* To(const tm&, string&): "%04d-%02d-%02dT%02d:%02d:%02dZ"
TmToString(in) ==
    Pad(in.tm_year, 4) \o <<"-">> \o Pad(in.tm_mon, 2) \o <<"-">> \o Pad(in.tm_mday, 2)
        \o <<"T">> \o Pad(in.tm_hour, 2) \o <<":">> \o Pad(in.tm_min, 2)
        \o <<":">> \o Pad(in.tm_sec, 2) \o <<"Z">>

\* To(const tm_ext&, string&): "%04d-%02d-%02dT%02d:%02d:%02d.%03dZ"
TmExtToString(in) ==
    Pad(in.tm_year, 4) \o <<"-">> \o Pad(in.tm_mon, 2) \o <<"-">> \o Pad(in.tm_mday, 2)
        \o <<"T">> \o Pad(in.tm_hour, 2) \o <<":">> \o Pad(in.tm_min, 2)
        \o <<":">> \o Pad(in.tm_sec, 2) \o <<".">> \o Pad(in.ms, 3) \o <<"Z">>

DaysInMonth == <<31, 29, 31, 30, 31, 30, 31, 31, 30, 31, 30, 31>>

\* *pos: the character at a position up to the end of the view.
CharAt(in, pos) == IF pos <= Len(in.text) THEN in.text[pos] ELSE in.after

\* std::from_chars: the position behind the digits that start at pos, and
\* their value. The fields of the inputs are short of the digits an int holds.
RECURSIVE DigitsEnd(_, _)
DigitsEnd(text, pos) ==
    IF pos <= Len(text) /\ text[pos] \in DigitChars THEN DigitsEnd(text, pos + 1) ELSE pos
RECURSIVE DigitsValue(_, _, _)
DigitsValue(text, from, to) ==
    IF to <= from THEN 0
    ELSE DigitsValue(text, from, to - 1) * 10 + DigitValue(text[to - 1])

Parsed(pos, value) == [ok |-> TRUE, pos |-> pos, value |-> value]
NotParsed == [ok |-> FALSE, pos |-> 0, value |-> 0]

\* parseDatetimePart: one number of the date-time, bounded by maxValue unless
\* that is 0, and the delimiter behind it unless that is "". Both throws of
\* the lambda are std::invalid_argument.
parseDatetimePart(in, pos, maxValue, delimiter) ==
    IF pos > Len(in.text) \/ in.text[pos] \notin DigitChars THEN NotParsed
    ELSE LET ptr == DigitsEnd(in.text, pos)
             outValue == DigitsValue(in.text, pos, ptr)
         IN  IF maxValue # 0 /\ outValue > maxValue THEN NotParsed
             ELSE IF delimiter # ""
                  THEN IF ptr <= Len(in.text) /\ in.text[ptr] = delimiter
                       THEN Parsed(ptr + 1, outValue)
                       ELSE NotParsed
                  ELSE Parsed(ptr, outValue)

\* The six calls of parseDatetimePart in parseDatetime, from field k on: year,
\* month, day, hour, minute, second, each with its bound and its delimiter.
\* DaysInMonth[utc.tm_mon - 1] for month 0 reads the int in front of the
\* table: before is the value found there.
RECURSIVE parseDatetimeFields(_, _, _, _, _)
parseDatetimeFields(in, before, k, pos, fields) ==
    IF k > 6 THEN Parsed(pos, fields)
    ELSE LET maxValue == IF k = 3
                         THEN (IF fields[2] >= 1 THEN DaysInMonth[fields[2]] ELSE before)
                         ELSE <<0, 12, 0, 23, 59, 59>>[k]
             r == parseDatetimePart(in, pos, maxValue, <<"-", "-", "T", ":", ":", "">>[k])
         IN  IF r.ok
             THEN parseDatetimeFields(in, before, k + 1, r.pos, Append(fields, r.value))
             ELSE NotParsed

\* parseDatetime: the fields, then the optional milliseconds or the 'Z'.
\* Nothing looks at what follows the 'Z'.
parseDatetime(in, before) ==
    LET f == parseDatetimeFields(in, before, 1, 1, <<>>)
    IN  IF ~f.ok THEN NotParsed
        ELSE LET utc == Tm(f.value[1], f.value[2], f.value[3], f.value[4], f.value[5], f.value[6])
                 sym == CharAt(in, f.pos)
             IN  IF sym = "."
                 THEN LET ms == parseDatetimePart(in, f.pos + 1, 999, "Z")
                      IN  IF ms.ok THEN Parsed(ms.pos, TmExt(utc, ms.value)) ELSE NotParsed
                 ELSE IF sym # "Z" THEN NotParsed
                 ELSE Parsed(f.pos, TmExt(utc, 0))

\* std::chrono::time_point<TClock, TDuration>: period is the ticks of TDuration
\* in a second, count the ticks since the epoch. Rep is a 32-bit integer.
TimePoint(period, count) == [period |-> period, count |-> count]
RepMax == 2147483647
RepMin == -RepMax - 1
\* time_t is 64 bits wide. A date this many days or more from the epoch has
\* seconds beyond 32 bits, and beyond maxSec and minSec of every TDuration
\* finer than seconds: it is compared by its days.
BeyondRep(utc) ==
    UtcToDays(utc) >= Quot(RepMax, 86400) \/ UtcToDays(utc) < -Quot(RepMax, 86400)
\* The resolutions of TDuration: seconds, milli-, micro- and nanoseconds.
Periods == {1, 1000, 1000000, 1000000000}

\* To(time_point, string&): the ticks past the floored second are printed as
\* they are counted, in ticks of TDuration. in - seconds(time) is computed in
\* 64 bits and is the count modulo the period.
TimePointToString(in) ==
    LET time == in.count \div in.period
        ms == in.count % in.period
    IN  IF ms # 0 THEN TmExtToString(TmExt(UnixTimeToUtc(time), ms))
        ELSE TmToString(UnixTimeToUtc(time))

\* The values a conversion chain passes on, each with its C++ type.
Val(type, v) == [type |-> type, v |-> v]

\* Unix times given to the codec: every sampled second of the days around the
\* epoch, of leap days, of the first day of a 400-year era (2000-03-01), and
\* of the first and last whole days a 32-bit count of seconds reaches.
RawTimes ==
    LET DaySamples == (-MaxDay..MaxDay) \cup {-24855, -671, 789, 790, 11016, 11017, 24854}
        SecSamples == {0, 1, 59, 60, 61, 3599, 3600, 3601, 43200, 86340, 86399}
    IN  {d * 86400 + s : d \in DaySamples, s \in SecSamples}

\* Time points given to the encoder: whole seconds and seconds with a part,
\* before and after the epoch, in every resolution.
TimePoints ==
    {TimePoint(1, t) : t \in {-86401, -1, 0, 1, 951868800}}
        \cup {TimePoint(p, t * p + sub * (p \div 1000)) :
                p \in Periods \ {1}, t \in {-2, -1, 0, 1}, sub \in {0, 1, 25, 500, 999}}

\* The text of a date-time as the encoder writes it.
IsoText(utc, ms) == IF ms = 0 THEN TmToString(utc) ELSE TmExtToString(TmExt(utc, ms))

\* Texts given to the decoder. ValidTexts: date-times in the pattern, around
\* the epoch and around the last second each resolution of a 32-bit time_point
\* holds. FieldTexts: texts in the pattern with a field at, next to or beyond
\* its bounds. MalformedTexts: one character of a date-time replaced or left
\* out, the text cut short, characters behind the 'Z'. Each is the view of a
\* whole string; two are views of the front part of a longer buffer.
IsoStrings ==
    LET DecodeTimes == {-2147484, -2147483, -2148, -2147, -3, -2, -1, 0, 1, 2, 3, 2147, 2148,
                        2147483, 2147484, 68256000, 951782400}
        DecodeMs == {0, 1, 147, 148, 483, 484, 647, 648, 999}
        ValidTexts == {IsoText(UnixTimeToUtc(t), ms) : t \in DecodeTimes, ms \in DecodeMs}
        FieldTexts ==
            {TmToString(Tm(y, m, d, 3, 4, 5)) :
                y \in {1970, 1972}, m \in {0, 1, 2, 4, 12, 13}, d \in {0, 1, 28, 29, 30, 31, 32}}
                \cup {TmToString(Tm(1970, 1, 2, h, mi, sec)) :
                        h \in {0, 23, 24}, mi \in {0, 59, 60}, sec \in {0, 59, 60}}
                \cup {TmExtToString(TmExt(Tm(1970, 1, 2, 3, 4, 5), ms)) : ms \in {0, 1, 999, 1000}}
        BaseTexts == {IsoText(Tm(1970, 1, 2, 3, 4, 5), 0), IsoText(Tm(1970, 1, 2, 3, 4, 5), 678)}
        OtherChars == {"x", " ", "-", ":", "T", "Z", ".", "7"}
        MalformedTexts ==
            UNION {{[b EXCEPT ![i] = c] : i \in 1..Len(b), c \in OtherChars}
                     \cup {SubSeq(b, 1, i - 1) \o SubSeq(b, i + 1, Len(b)) : i \in 1..Len(b)}
                     \cup {SubSeq(b, 1, i) : i \in 0..(Len(b) - 1)}
                     \cup {b \o <<c>> : c \in OtherChars}
                   : b \in BaseTexts}
    IN  {Str(text, "NUL") : text \in ValidTexts \cup FieldTexts \cup MalformedTexts}
            \cup {Str(SubSeq(b, 1, Len(b) - 1), "Z") : b \in BaseTexts}

\* A chain before its first conversion.
Start(type, v) == [vals |-> <<Val(type, v)>>, fns |-> <<>>, err |-> "None"]

ChronoInit ==
    /\ backend = "BinStub" /\ mode = "Load" /\ asserts = TRUE
    /\ opts = [overflow |-> "ThrowError", mismatch |-> "ThrowError"]
    /\ doc = NullN /\ scopes = <<RootScope>> /\ err = "None" /\ done = TRUE
    /\ context = <<>> /\ last = NoLast /\ cont = <<>> /\ env = NoEnv
    /\ \/ \E t \in RawTimes : conv = Start("time_t", t)
       \/ \E tp \in TimePoints : conv = Start("time_point", tp)
       \/ \E in \in IsoStrings : conv = Start("string", in)

\* The value the chain holds, and whether it can take one more conversion.
Cur == conv.vals[Len(conv.vals)]
CanConvert(type) ==
    /\ conv.vals # <<>> /\ conv.err = "None" /\ Len(conv.fns) < MaxConvSteps
    /\ Cur.type = type
Converted(fn, x) ==
    conv' = [conv EXCEPT !.vals = Append(@, x), !.fns = Append(@, fn)]
Failed(fn, e) ==
    conv' = [conv EXCEPT !.fns = Append(@, fn), !.err = e]

CallUnixTimeToUtc ==
    /\ CanConvert("time_t")
    /\ Converted("UnixTimeToUtc", Val("tm", UnixTimeToUtc(Cur.v)))
    /\ UNCHANGED archiveVars

CallUtcToUnixTime ==
    /\ CanConvert("tm")
    /\ Converted("UtcToUnixTime", Val("time_t", UtcToUnixTime(Cur.v)))
    /\ UNCHANGED archiveVars

\* To(string_view, tm_ext&)
CallStringToTmExt ==
    /\ CanConvert("string")
    /\ \E before \in {-1, 0, 31} :
        LET r == parseDatetime(Cur.v, before)
        IN  IF r.ok THEN Converted("StringToTmExt", Val("tm_ext", r.value))
            ELSE Failed("StringToTmExt", "InvalidArgument")
    /\ UNCHANGED archiveVars

\* To(string_view, time_point&) for a TDuration finer than seconds (the code
\* adds std::chrono::milliseconds to the result). Adding the milliseconds
\* beyond the largest count is a signed overflow: the count wraps, or the
\* build traps.
CallStringToTimePoint ==
    /\ CanConvert("string")
    /\ \E before \in {-1, 0, 31}, period \in Periods \ {1} :
        LET r == parseDatetime(Cur.v, before)
            time == UtcToUnixTime(r.value)
            maxSec == Quot(RepMax, period)
            minSec == Quot(RepMin, period)
            secs == time * period
            add == r.value.ms * (period \div 1000)
        IN  IF ~r.ok THEN Failed("StringToTimePoint", "InvalidArgument")
            ELSE IF BeyondRep(r.value) \/ time > maxSec \/ time < minSec
                 THEN Failed("StringToTimePoint", "OutOfRange")
            ELSE IF secs > 0 /\ add > RepMax - secs
                 THEN \/ Converted("StringToTimePoint",
                             Val("time_point", TimePoint(period, (secs + RepMin) + (add + RepMin))))
                      \/ Failed("StringToTimePoint", "Undefined")
                 ELSE Converted("StringToTimePoint", Val("time_point", TimePoint(period, secs + add)))
    /\ UNCHANGED archiveVars

\* To(time_point, string&)
CallTimePointToString ==
    /\ CanConvert("time_point")
    /\ Converted("TimePointToString", Val("string", Str(TimePointToString(Cur.v), "NUL")))
    /\ UNCHANGED archiveVars

ChronoNext ==
    \/ CallUnixTimeToUtc
    \/ CallUtcToUnixTime
    \/ CallStringToTmExt
    \/ CallStringToTimePoint
    \/ CallTimePointToString

SpecChrono == ChronoInit /\ [][ChronoNext]_vars

\* The days of a month of a civil year.
IsLeap(y) == y % 4 = 0 /\ (y % 100 # 0 \/ y % 400 = 0)
DaysOfMonth(y, m) ==
    IF m = 2 THEN (IF IsLeap(y) THEN 29 ELSE 28)
    ELSE IF m \in {4, 6, 9, 11} THEN 30 ELSE 31

\* C11: for every Unix time t, zero and times before 1970 included,
\* UtcToUnixTime(UnixTimeToUtc(t)) = t; the civil time in between is a date
\* of the calendar with a clock time of the day.
C11_UnixTimeRoundTrip ==
    (Len(conv.fns) >= 2 /\ conv.fns[1] = "UnixTimeToUtc" /\ conv.fns[2] = "UtcToUnixTime") =>
        /\ conv.vals[3] = conv.vals[1]
        /\ LET utc == conv.vals[2].v
           IN  /\ utc.tm_mon \in 1..12
               /\ utc.tm_mday \in 1..DaysOfMonth(utc.tm_year, utc.tm_mon)
               /\ utc.tm_hour \in 0..23 /\ utc.tm_min \in 0..59 /\ utc.tm_sec \in 0..59

\* One second before the epoch went to 1969-12-31 23:59:59 and back to -1.
C11_Witness ==
    /\ Len(conv.fns) >= 2 /\ conv.fns[1] = "UnixTimeToUtc" /\ conv.fns[2] = "UtcToUnixTime"
    /\ conv.vals[1].v = -1
    /\ conv.vals[2].v = Tm(1969, 12, 31, 23, 59, 59)
    /\ conv.vals[3].v = -1

\* The pattern YYYY-MM-DDThh:mm:ss[.SSS]Z: digits and delimiters, each at its place.
IsoPattern(text) ==
    /\ Len(text) \in {20, 24}
    /\ \A i \in 1..Len(text) :
        IF i \in {5, 8} THEN text[i] = "-"
        ELSE IF i = 11 THEN text[i] = "T"
        ELSE IF i \in {14, 17} THEN text[i] = ":"
        ELSE IF i = Len(text) THEN text[i] = "Z"
        ELSE IF i = 20 THEN text[i] = "."
        ELSE text[i] \in DigitChars

\* The k-th conversion of the chain is fn, and it returned a value.
Returned(k, fn) == k <= Len(conv.fns) /\ conv.fns[k] = fn /\ Len(conv.vals) > k
\* The k-th conversion of the chain is fn, and it threw e.
Threw(k, fn, e) ==
    k = Len(conv.fns) /\ conv.fns[k] = fn /\ Len(conv.vals) = k /\ conv.err = e

\* C12: for every valid ISO-8601 UTC text s (in the pattern, a date of the
\* calendar, no fraction for 0 milliseconds and three digits otherwise),
\* decoding s to a time_point and encoding that time_point gives back s.
C12_DecodeEncodeRoundTrip ==
    \A k \in 1..MaxConvSteps :
        (/\ Returned(k, "StringToTimePoint") /\ Returned(k + 1, "TimePointToString")
         /\ IsoPattern(conv.vals[k].v.text)
         /\ LET utc == parseDatetime(conv.vals[k].v, 0).value
            IN  /\ utc.tm_mon \in 1..12
                /\ utc.tm_mday \in 1..DaysOfMonth(utc.tm_year, utc.tm_mon)
                /\ Len(conv.vals[k].v.text) = 24 => utc.ms > 0)
            => conv.vals[k + 2].v.text = conv.vals[k].v.text

\* C13: no text with a month outside 1..12, a day outside 1..DaysInMonth of its
\* month, an hour above 23, a minute or second above 59 or milliseconds above
\* 999 is decoded: every decoded civil time has its fields in these ranges.
C13_DecodedFieldsInRange ==
    \A k \in 1..MaxConvSteps :
        Returned(k, "StringToTmExt") =>
            LET utc == conv.vals[k + 1].v
            IN  /\ utc.tm_mon \in 1..12
                /\ utc.tm_mday >= 1
                /\ utc.tm_mon \in 1..12 => utc.tm_mday <= DaysInMonth[utc.tm_mon]
                /\ utc.tm_hour \in 0..23 /\ utc.tm_min \in 0..59 /\ utc.tm_sec \in 0..59
                /\ utc.ms \in 0..999

\* C14: decoding fails for every text off the pattern YYYY-MM-DDThh:mm:ss[.SSS]Z:
\* a wrong or missing delimiter, a non-digit in a field, no 'Z' at the end
\* (the text ending behind the seconds included), characters behind the 'Z'.
C14_OffPatternRejected ==
    \A k \in 1..MaxConvSteps :
        (/\ k <= Len(conv.fns) /\ conv.fns[k] \in {"StringToTmExt", "StringToTimePoint"}
         /\ ~IsoPattern(conv.vals[k].v.text))
            => Threw(k, conv.fns[k], "InvalidArgument")

\* C15: decoding a date-time into a time_point whose range cannot hold its
\* seconds and milliseconds throws out_of_range: a call that returns gives the
\* time_point of exactly the decoded seconds and milliseconds, and a call that
\* does not return threw invalid_argument or out_of_range.
C15_OutOfRangeNotWrapped ==
    \A k \in 1..MaxConvSteps :
        (k <= Len(conv.fns) /\ conv.fns[k] = "StringToTimePoint") =>
            IF Len(conv.vals) > k
            THEN LET utc == parseDatetime(conv.vals[k].v, 0).value
                     tp == conv.vals[k + 1].v
                 IN  /\ ~BeyondRep(utc)
                     /\ tp.count \div tp.period = UtcToUnixTime(utc)
                     /\ tp.count % tp.period = utc.ms * (tp.period \div 1000)
            ELSE conv.err \in {"InvalidArgument", "OutOfRange"}

\* C16: encoding a time_point gives YYYY-MM-DDThh:mm:ssZ of its floored second
\* when it has no part of a second, and otherwise YYYY-MM-DDThh:mm:ss.SSSZ with
\* SSS the milliseconds past the floored second, in every resolution of the
\* time_point, before the epoch as after it.
C16_EncodedMilliseconds ==
    \A k \in 1..MaxConvSteps :
        Returned(k, "TimePointToString") =>
            LET tp == conv.vals[k].v
                ms == IF tp.period = 1 THEN 0
                      ELSE (tp.count % tp.period) \div (tp.period \div 1000)
            IN  conv.vals[k + 1].v.text = IsoText(UnixTimeToUtc(tp.count \div tp.period), ms)

\* ---------------------------------------------------- conversion engine: UTF
\* Longest UTF-16 text given to the transcoder, in code units.
MaxUtfLen == 3

\* Unicode::HighSurrogatesStart..HighSurrogatesEnd (0xD800..0xDBFF) and
\* Unicode::LowSurrogatesStart..LowSurrogatesEnd (0xDC00..0xDFFF).
HighSurrogates == 55296..56319
LowSurrogates == 56320..57343

\* A string with the error symbol its conversion is called with.
UStr(units, errSym) == [units |-> units, errSym |-> errSym]

\* The mutation of Utf32Encode that, for a high surrogate without its low
\* surrogate, drops the code unit behind it as well.
RECURSIVE Utf32EncodeSkipping(_, _, _)
Utf32EncodeSkipping(in, pos, errSym) ==
    IF pos > Len(in) THEN <<>>
    ELSE IF in[pos] \notin HighSurrogates \cup LowSurrogates
         THEN <<in[pos]>> \o Utf32EncodeSkipping(in, pos + 1, errSym)
    ELSE IF in[pos] \in HighSurrogates /\ pos < Len(in) /\ in[pos + 1] \in LowSurrogates
         THEN <<65536 + (in[pos] - 55296) * 1024 + (in[pos + 1] - 56320)>>
                  \o Utf32EncodeSkipping(in, pos + 2, errSym)
    ELSE IF in[pos] \in HighSurrogates
         THEN <<errSym>> \o Utf32EncodeSkipping(in, pos + 2, errSym)
    ELSE <<errSym>> \o Utf32EncodeSkipping(in, pos + 1, errSym)

\* Utf32Le::Encode from UTF-16, from code unit pos on: a unit outside the
\* surrogates is its own code point; a high surrogate with a low surrogate
\* right behind it is one code point above 0xFFFF; any other surrogate is
\* replaced by the error symbol, and the conversion goes on behind that unit.
RECURSIVE Utf32Encode(_, _, _)
Utf32Encode(in, pos, errSym) ==
    IF pos > Len(in) THEN <<>>
    ELSE IF in[pos] \notin HighSurrogates \cup LowSurrogates
         THEN <<in[pos]>> \o Utf32Encode(in, pos + 1, errSym)
    ELSE IF in[pos] \in HighSurrogates /\ pos < Len(in) /\ in[pos + 1] \in LowSurrogates
         THEN <<65536 + (in[pos] - 55296) * 1024 + (in[pos + 1] - 56320)>>
                  \o Utf32Encode(in, pos + 2, errSym)
    ELSE <<errSym>> \o Utf32Encode(in, pos + 1, errSym)

\* The mutation of Utf32Decode that knows no surrogate pairs.
RECURSIVE Utf32DecodeBmpOnly(_, _, _)
Utf32DecodeBmpOnly(in, pos, errSym) ==
    IF pos > Len(in) THEN <<>>
    ELSE (IF in[pos] < 65536 THEN <<in[pos]>> ELSE <<errSym>>)
             \o Utf32DecodeBmpOnly(in, pos + 1, errSym)

\* Utf32Le::Decode to UTF-16, from code point pos on: a code point above
\* 0xFFFF becomes a high and a low surrogate, one beyond 0x10FFFF the error
\* symbol.
RECURSIVE Utf32Decode(_, _, _)
Utf32Decode(in, pos, errSym) ==
    IF pos > Len(in) THEN <<>>
    ELSE (IF in[pos] < 65536 THEN <<in[pos]>>
          ELSE IF in[pos] > 1114111 THEN <<errSym>>
          ELSE <<55296 + ((in[pos] - 65536) \div 1024), 56320 + ((in[pos] - 65536) % 1024)>>)
             \o Utf32Decode(in, pos + 1, errSym)

\* UTF-16 texts of the tests: a letter, the first and last high and low
\* surrogates, and the pair of U+1F600.
Utf16Strings ==
    LET Utf16Units == {116, 55296, 56319, 56320, 57343, 55357, 56832}
    IN  UNION {[1..n -> Utf16Units] : n \in 0..MaxUtfLen}

UtfInit ==
    /\ backend = "BinStub" /\ mode = "Load" /\ asserts = TRUE
    /\ opts = [overflow |-> "ThrowError", mismatch |-> "ThrowError"]
    /\ doc = NullN /\ scopes = <<RootScope>> /\ err = "None" /\ done = TRUE
    /\ context = <<>> /\ last = NoLast /\ cont = <<>> /\ env = NoEnv
    /\ \E in \in Utf16Strings, errSym \in {63, 95} :
        conv = Start("u16string", UStr(in, errSym))

\* TEncoder::Encode(unicodeStr.begin(), unicodeStr.end(), result, errSym)
CallUtf32Encode ==
    /\ CanConvert("u16string")
    /\ Converted("Utf32Encode",
                 Val("u32string", UStr(Utf32Encode(Cur.v.units, 1, Cur.v.errSym), Cur.v.errSym)))
    /\ UNCHANGED archiveVars

\* TEncoder::Decode(Utf32Str.begin(), Utf32Str.end(), result, errSym)
CallUtf32Decode ==
    /\ CanConvert("u32string")
    /\ Converted("Utf32Decode",
                 Val("u16string", UStr(Utf32Decode(Cur.v.units, 1, Cur.v.errSym), Cur.v.errSym)))
    /\ UNCHANGED archiveVars

UtfNext ==
    \/ CallUtf32Encode
    \/ CallUtf32Decode

SpecUtf == UtfInit /\ [][UtfNext]_vars

\* Unit i of a UTF-16 text is one half of a well-formed surrogate pair.
PairedHigh(in, i) ==
    in[i] \in HighSurrogates /\ i < Len(in) /\ in[i + 1] \in LowSurrogates
PairedLow(in, i) ==
    in[i] \in LowSurrogates /\ i > 1 /\ in[i - 1] \in HighSurrogates
\* What each unit of a UTF-16 text stands for in UTF-32, unit by unit.
RECURSIVE UnitByUnit(_, _, _)
UnitByUnit(in, i, errSym) ==
    IF i > Len(in) THEN <<>>
    ELSE (IF in[i] \notin HighSurrogates \cup LowSurrogates THEN <<in[i]>>
          ELSE IF PairedHigh(in, i)
               THEN <<65536 + (in[i] - 55296) * 1024 + (in[i + 1] - 56320)>>
          ELSE IF PairedLow(in, i) THEN <<>>
          ELSE <<errSym>>)
             \o UnitByUnit(in, i + 1, errSym)

\* C17: transcoding UTF-16 to UTF-32 maps every well-formed surrogate pair to
\* one code point above 0xFFFF ({0xD83D, 0xDE00} to U+1F600), and transcoding
\* the UTF-32 text of a well-formed UTF-16 text back gives that text.
C17_SurrogatePairRoundTrip ==
    \A k \in 1..MaxConvSteps :
        Returned(k, "Utf32Encode") =>
            LET in == conv.vals[k].v.units
                out == conv.vals[k + 1].v.units
                wellFormed == \A i \in 1..Len(in) :
                                in[i] \in HighSurrogates \cup LowSurrogates
                                    => PairedHigh(in, i) \/ PairedLow(in, i)
                pairs == {i \in 1..Len(in) : PairedHigh(in, i)}
            IN  /\ Cardinality({j \in 1..Len(out) : out[j] >= 65536}) = Cardinality(pairs)
                /\ in = <<55357, 56832>> => out = <<128512>>
                /\ (wellFormed /\ Returned(k + 1, "Utf32Decode"))
                       => conv.vals[k + 2].v.units = in

\* {0xD83D, 0xDE00} was transcoded to U+1F600 and back to the pair.
C17_Witness ==
    /\ Returned(1, "Utf32Encode") /\ Returned(2, "Utf32Decode")
    /\ conv.vals[1].v.units = <<55357, 56832>>
    /\ conv.vals[2].v.units = <<128512>>
    /\ conv.vals[3].v.units = <<55357, 56832>>

\* C18: transcoding UTF-16 puts exactly one error symbol for every unpaired
\* surrogate (a low surrogate with no high surrogate in front of it, a high
\* surrogate at the end or with no low surrogate behind it), keeps the
\* well-formed text before and behind it in order, and completes.
C18_OneErrorSymbolPerUnpaired ==
    \A k \in 1..MaxConvSteps :
        (k <= Len(conv.fns) /\ conv.fns[k] = "Utf32Encode") =>
            /\ Returned(k, "Utf32Encode")
            /\ conv.vals[k + 1].v.units =
                   UnitByUnit(conv.vals[k].v.units, 1, conv.vals[k].v.errSym)

\* A high surrogate in front of a letter gave one error symbol and the letter.
C18_Witness ==
    /\ Returned(1, "Utf32Encode")
    /\ conv.vals[1].v = UStr(<<56320, 55296, 116>>, 95)
    /\ conv.vals[2].v.units = <<95, 95, 116>>

\* ------------------------------------------- generic container serialization
\* The mutation of GetSize that reports no elements, as an estimate may.
RapidJsonArrayGetSizeZero(node) == 0

\* RapidJsonArrayScope::GetSize: the capacity of the array node.
RapidJsonArrayGetSize(node) == node.cap

\* The loop of SerializeContainer from element i on: Serialize(arrayScope, elem)
\* loads the next element of the scope into elem; an exception ends the loop.
RECURSIVE SerializeElements(_, _, _, _, _, _, _)
SerializeElements(b, node, elems, i, mIndex, options, withAsserts) ==
    IF i > Len(elems) THEN [cont |-> elems, mIndex |-> mIndex, err |-> "None"]
    ELSE LET prior == [num |-> elems[i], str |-> ""]
             nx == LoadNextItem(b, [mIndex |-> mIndex, mSize |-> Len(node.items)], node)
             r == IF nx.err # "None" THEN Raised(prior, nx.err)
                  ELSE IF nx.pos = 0 THEN NotLoaded(prior)
                  ELSE LoadValue(b, "Array", node.items[nx.pos], "int32", prior,
                                 options, withAsserts)
         IN  IF r.err # "None" THEN [cont |-> elems, mIndex |-> nx.mIndex, err |-> r.err]
             ELSE SerializeElements(b, node, [elems EXCEPT ![i] = r.num], i + 1, nx.mIndex,
                                    options, withAsserts)

\* SerializeContainer(arrayScope, cont) in Load mode on the array scope a
\* container was opened with: cont.resize(arrayScope.GetSize()), then every
\* element in order. Of the array scopes only RapidJsonArrayScope has a
\* GetSize() the function can call.
SerializeContainer ==
    /\ Running /\ mode = "Load" /\ backend = "RapidJson"
    /\ Top.kind = "Array" /\ ScopeIntact /\ Top.mIndex = 0
    /\ LET size == RapidJsonArrayGetSize(TopNode)
           resized == [i \in 1..size |-> IF i <= Len(cont) THEN cont[i] ELSE 0]
           r == SerializeElements(backend, TopNode, resized, 1, Top.mIndex, opts, asserts)
       IN  /\ cont' = r.cont
           /\ err' = r.err
           /\ scopes' = WithIndex(scopes, r.mIndex)
           /\ last' = [Op("SerializeContainer") EXCEPT !.size = size, !.count = Len(cont)]
    /\ UNCHANGED <<callVars, doc, done, context, conv, env>>

\* TestLoadToNotEmptyContainer: the archive of a saved sequence of integers, as
\* the parser gives it to the Load call (capacity = element count), and a
\* target container of targetContainerSize value-initialized elements.
ContainerInit ==
    /\ backend = "RapidJson" /\ mode = "Load"
    /\ asserts \in BOOLEAN
    /\ opts \in [overflow : Policies, mismatch : Policies]
    /\ \E n \in 0..MaxArrayLen : \E items \in [1..n -> {IntN(1), IntN(2), IntN(3)}] :
            doc = ArrN(items, n)
    /\ \E targetContainerSize \in 0..(MaxArrayLen + 1) :
            cont = [i \in 1..targetContainerSize |-> 0]
    /\ scopes = <<RootScope>> /\ err = "None" /\ done = FALSE
    /\ context = <<>> /\ last = NoLast /\ conv = NoConv /\ env = NoEnv

ContainerNext ==
    \/ RootOpenArrayScope
    \/ SerializeContainer
    \/ CloseScope
    \/ LoadObjectEnd

SpecContainer == ContainerInit /\ [][ContainerNext]_vars

\* C19: loading a saved sequence of n elements into a resizable container of m
\* elements, m below, equal to or above n, leaves the container with exactly
\* the n saved elements in their order.
C19_ContainerHoldsSavedElements ==
    last.op = "SerializeContainer" =>
        /\ err = "None"
        /\ Len(cont) = Len(TopNode.items)
        /\ \A i \in 1..Len(cont) : cont[i] = TopNode.items[i].num

\* A container of three elements was loaded from a saved sequence of two.
C19_Witness ==
    /\ last.op = "SerializeContainer" /\ last.count = 3
    /\ TopNode.items = <<IntN(2), IntN(1)>>
    /\ cont = <<2, 1>>

\* No object of the document holds two members under one key.
RECURSIVE UniqueKeys(_)
UniqueKeys(node) ==
    IF node.kind \notin {"Object", "Array"} THEN TRUE
    ELSE /\ node.kind = "Object" =>
                \A i, j \in 1..Len(node.keys) : node.keys[i] = node.keys[j] => i = j
         /\ \A i \in 1..Len(node.items) : UniqueKeys(node.items[i])

\* C20: after any sequence of Save-mode operations on an object scope, the
\* object node of the backend holds at most one member per key, in every
\* backend.
C20_OneMemberPerKey == mode = "Save" => UniqueKeys(doc)

\* ------------------------------------------------- paths of array scopes
\* The path of the innermost scope, an array scope, were index its last segment.
ArrayPathEndingIn(index) ==
    ScopeBaseGetPath(backend, mode, doc, scopes, Len(scopes))
        \o path_separator \o ConvertToString(index)

\* C21: in Load mode the last segment of an array scope's path is the index of
\* the last consumed element: 0 before any element was consumed, k - 1 after
\* k >= 1 elements were, in every backend.
C21_LoadPathLastConsumed ==
    (mode = "Load" /\ Top.kind = "Array" /\ ScopeIntact) =>
        TopPath = ArrayPathEndingIn(IF Top.mIndex = 0 THEN 0 ELSE Top.mIndex - 1)

\* C22: in Save mode the last segment of an array scope's path is the index
\* about to be written: k after k elements were written, 0 for a fresh scope,
\* in every backend.
C22_SavePathNextWritten ==
    (mode = "Save" /\ Top.kind = "Array" /\ ScopeIntact) =>
        TopPath = ArrayPathEndingIn(WrittenCount(backend, Top, TopNode))

\* C23: in Load mode an element operation (SerializeValue, SerializeString,
\* OpenObjectScope or OpenArrayScope) of a RapidJson array scope made after
\* all elements were consumed aborts the call with OutOfRange; it never
\* returns normally with the target unchanged.
C23_RapidJsonPastEndOutOfRange ==
    (mode = "Load" /\ backend = "RapidJson" /\ last.op \in ArrayOps
        /\ last.idx = last.size) =>
        err = "OutOfRange"

\* ------------------------------------------------------- the output sink
\* The mutation of the output step that leaves mOutput pointing to the sink.
WriteOutputKeepingPointer(sink, tree, writeBom) ==
    IF sink.mOutput = "nullptr" THEN sink
    ELSE Sink(sink.mOutput, sink.writes + 1, sink.mOutput = "stream" /\ writeBom, tree)

\* The body of JsonRootScope::Finalize and RapidJsonRootScope::Finish in Save
\* mode: std::visit writes the serialization of the tree to the string or
\* stream mOutput points to (nothing for nullptr), then mOutput = nullptr.
WriteOutput(sink, tree, writeBom) ==
    IF sink.mOutput = "nullptr" THEN sink
    ELSE Sink("nullptr", sink.writes + 1, sink.mOutput = "stream" /\ writeBom, tree)

\* JsonRootScope::Finalize, called on the root scope at any time of the call.
\* RapidJsonRootScope has no such method: its Finish is private.
Finalize ==
    /\ Running /\ mode = "Save" /\ backend = "CppRest"
    /\ env' = [env EXCEPT !.sink = WriteOutput(@, doc, env.writeBom)]
    /\ last' = [Op("Finalize") EXCEPT !.present = env.sink.mOutput # "nullptr"]
    /\ UNCHANGED <<callVars, doc, scopes, err, done, context, conv, cont>>

\* The root scope of a Save call goes out of scope: ~RapidJsonRootScope calls
\* Finish, which writes the RapidJson archive without the BOM option;
\* JsonRootScope has no destructor of its own.
RootScopeEnd ==
    /\ Running /\ mode = "Save"
    /\ env' = [env EXCEPT !.sink = IF backend = "RapidJson"
                                    THEN WriteOutput(@, doc, FALSE) ELSE @]
    /\ scopes' = <<RootScope>>
    /\ done' = TRUE
    /\ last' = [Op("RootScopeEnd") EXCEPT !.present = env.sink.mOutput # "nullptr"]
    /\ UNCHANGED <<callVars, doc, err, context, conv, cont>>

\* A Save call of a JSON archive into a string or a stream.
SinkInit ==
    /\ backend \in {"CppRest", "RapidJson"} /\ mode = "Save"
    /\ asserts \in BOOLEAN
    /\ opts = [overflow |-> "ThrowError", mismatch |-> "ThrowError"]
    /\ doc = NullN /\ scopes = <<RootScope>> /\ err = "None" /\ done = FALSE
    /\ context = <<>> /\ last = NoLast /\ conv = NoConv /\ cont = <<>>
    /\ \E mOutput \in {"string", "stream"}, writeBom \in BOOLEAN :
            env = [NoEnv EXCEPT !.sink = Sink(mOutput, 0, FALSE, NullN),
                                !.writeBom = writeBom]

SinkNext ==
    \/ RootSerializeValue
    \/ RootOpenObjectScope
    \/ RootOpenArrayScope
    \/ ArrSerializeValue
    \/ ObjSerializeValue
    \/ CloseScope
    \/ Finalize
    \/ RootScopeEnd

SpecSink == SinkInit /\ [][SinkNext]_vars

\* The step at which a backend writes its sink: the explicit Finalize of
\* cpprest, the end of the root scope of RapidJson.
IsFinalizeStep(b, op) ==
    \/ b = "CppRest" /\ op = "Finalize"
    \/ b = "RapidJson" /\ op = "RootScopeEnd"

\* The sink is written at most once, and once a finalize step was taken it
\* has been written once and is released.
C24_State ==
    /\ env.sink.writes <= 1
    /\ IsFinalizeStep(backend, last.op) =>
            (env.sink.writes = 1 /\ env.sink.mOutput = "nullptr")

\* Only a finalize step changes the sink, only the first one, and it writes
\* the tree accumulated so far.
C24_Step ==
    env'.sink # env.sink =>
        /\ IsFinalizeStep(backend, last'.op)
        /\ env.sink.writes = 0 /\ env'.sink.writes = 1
        /\ env'.sink.content = doc /\ doc' = doc

\* C24: in Save mode no scope operation writes to the output string or
\* stream; it is written exactly once, by the first finalize step (Finalize
\* or the end of the root scope), with the serialization of the whole
\* accumulated tree, and a later finalize writes nothing.
C24_SinkWrittenOnceAtFinalize == []C24_State /\ [][C24_Step]_vars

\* A second Finalize found the pointer released and left the one write, of
\* an object with a member, as it was.
C24_Witness ==
    /\ backend = "CppRest" /\ last.op = "Finalize" /\ ~last.present
    /\ env.sink.writes = 1
    /\ env.sink.content.kind = "Object" /\ Len(env.sink.content.keys) = 1

\* ------------------------------------------- integers of up to 64 bits
\* A 64-bit machine word as four 16-bit limbs, the most significant first; a
\* value of a narrower type is held sign- or zero-extended, as the integral
\* conversions to int64_t and uint64_t leave it.
Limb == 2^16
Word(v) ==
    LET fill == IF v < 0 THEN Limb - 1 ELSE 0
    IN  <<fill, fill, (v \div Limb) % Limb, v % Limb>>

WideTypes == {"int8", "uint8", "int32", "uint32", "int64", "uint64"}
IsSigned(T) == T \in {"int8", "int32", "int64"}

\* std::numeric_limits<T>::min() and max() as words.
WMin(T) == IF T = "int8" THEN Word(-128)
           ELSE IF T = "int32" THEN Word(-2147483647 - 1)
           ELSE IF T = "int64" THEN <<32768, 0, 0, 0>>
           ELSE Word(0)
WMax(T) == IF T = "int8" THEN Word(127)
           ELSE IF T = "uint8" THEN Word(255)
           ELSE IF T = "int32" THEN Word(2147483647)
           ELSE IF T = "uint32" THEN <<0, 0, Limb - 1, Limb - 1>>
           ELSE IF T = "int64" THEN <<32767, Limb - 1, Limb - 1, Limb - 1>>
           ELSE <<Limb - 1, Limb - 1, Limb - 1, Limb - 1>>

\* static_cast<T> of a 64-bit word: the low bits of T's width, extended.
WideCast(T, w) ==
    IF T \in {"int64", "uint64"} THEN w
    ELSE IF T \in {"int32", "uint32"}
    THEN LET fill == IF IsSigned(T) /\ w[3] >= 32768 THEN Limb - 1 ELSE 0
         IN  <<fill, fill, w[3], w[4]>>
    ELSE LET low == w[4] % 256
             neg == IsSigned(T) /\ low >= 128
         IN  IF neg THEN <<Limb - 1, Limb - 1, Limb - 1, 65280 + low>>
             ELSE <<0, 0, 0, low>>

\* The word is below zero when read as signed.
WNegative(signed, w) == signed /\ w[1] >= 32768

\* a < b for the integers two words stand for, each read as signed or unsigned.
WLess(sa, a, sb, b) ==
    IF WNegative(sa, a) # WNegative(sb, b) THEN WNegative(sa, a)
    ELSE \E i \in 1..4 : a[i] < b[i] /\ \A j \in 1..(i - 1) : a[j] = b[j]

\* -w in two's complement: the complement of every limb, plus one.
WNegate(w) ==
    LET c == [i \in 1..4 |-> Limb - 1 - w[i]]
        k4 == c[4] + 1
        k3 == c[3] + k4 \div Limb
        k2 == c[2] + k3 \div Limb
        k1 == c[1] + k2 \div Limb
    IN  <<k1 % Limb, k2 % Limb, k3 % Limb, k4 % Limb>>

\* An integer of the program: its type and its value as a word.
IntV(T, w) == [ttype |-> T, bits |-> w, loaded |-> TRUE]

\* An archived number: the int64_t or uint64_t alternative of BinTestIoData,
\* the signed or unsigned web::json::number, the i64 or u64 of a RapidJson value.
Num(signed, w) == [signed |-> signed, bits |-> w]

\* BinArchiveStubScopeBase::SaveFundamentalValue of an integer
StubSaveInteger(T, w) == Num(IsSigned(T), w)

\* JsonRootScope::SerializeValue in Save mode: web::json::value::number(value)
\* takes int32_t, uint32_t, int64_t or uint64_t; the narrower types are promoted to int.
CppRestSaveInteger(T, w) == Num(T \notin {"uint32", "uint64"}, w)

\* RapidJsonScopeBase::SaveFundamentalValue: SetInt64, SetUint64, or SetInt
\* of the value converted to int.
RapidJsonSaveInteger(T, w) ==
    IF T = "int64" THEN Num(TRUE, w)
    ELSE IF T = "uint64" THEN Num(FALSE, w)
    ELSE Num(TRUE, WideCast("int32", w))

\* The JSON text of a number, as the serializers write it: a minus sign for a
\* number below zero, and the magnitude.
JsonNumberText(n) ==
    LET neg == WNegative(n.signed, n.bits)
    IN  [neg |-> neg, mag |-> IF neg THEN WNegate(n.bits) ELSE n.bits]

\* The number a JSON parser makes of such a text: signed for a text with a
\* minus sign, unsigned otherwise.
JsonParseNumber(text) ==
    IF text.neg THEN Num(TRUE, WNegate(text.mag)) ELSE Num(FALSE, text.mag)

\* An archived number is within the range of T.
WithinRange(n, T) ==
    /\ ~WLess(n.signed, n.bits, IsSigned(T), WMin(T))
    /\ ~WLess(IsSigned(T), WMax(T), n.signed, n.bits)

\* The outcome of loading an integer: the target afterwards, or the error.
WLoaded(T, w) == [err |-> "None", value |-> IntV(T, w)]
WNotLoaded(T, e) == [err |-> e, value |-> [ttype |-> T, bits |-> Word(0), loaded |-> FALSE]]

\* BinArchiveStubScopeBase::LoadFundamentalValue of an archived int64_t or
\* uint64_t into an integer: Detail::SafeNumberCast.
StubLoadInteger(n, T, options) ==
    IF WithinRange(n, T) THEN WLoaded(T, WideCast(T, n.bits))
    ELSE WNotLoaded(T, IF options.overflow = "ThrowError" THEN "Overflow" ELSE "None")

\* The mutation of the cpprest loader without its 64-bit branches.
CppRestLoadIntegerAsInt(n, T) == WLoaded(T, WideCast(T, WideCast("int32", n.bits)))

\* JsonScopeBase::LoadFundamentalValue of a number into an integer: to_int64(),
\* to_uint64(), or static_cast<T>(as_integer()), as_integer() being the int32_t
\* conversion of the stored 64-bit integer.
CppRestLoadInteger(n, T) ==
    IF T \in {"int64", "uint64"} THEN WLoaded(T, n.bits)
    ELSE WLoaded(T, WideCast(T, WideCast("int32", n.bits)))

\* RapidJsonScopeBase::LoadFundamentalValue of a number into an integer:
\* GetInt64(), GetUint64() or static_cast<T>(GetInt()); each getter asserts
\* that the number fits its type and otherwise reads the stored bits.
RapidJsonLoadInteger(n, T, withAsserts) ==
    LET getter == IF T \in {"int64", "uint64"} THEN T ELSE "int32"
    IN  IF withAsserts /\ ~WithinRange(n, getter) THEN WNotLoaded(T, "AssertFailed")
        ELSE WLoaded(T, WideCast(T, WideCast(getter, n.bits)))

\* The integers saved: the limits of the type, and the values of its type
\* that the numbers around the limits of the narrower types convert to.
WideValues(T) ==
    {WMin(T), WMax(T)} \cup
    {WideCast(T, Word(v)) : v \in {-129, -128, -1, 0, 1, 127, 128, 255, 256, 2147483647}}
    \cup {WideCast(T, w) : w \in {<<0, 1, 0, 0>>, <<0, 0, 32768, 0>>, <<65535, 65534, 0, 1>>}}

\* TestSerializeType<TArchive, T>(value): the value before SaveObject.
RoundTripInit ==
    /\ backend \in Backends /\ mode = "Save" /\ asserts \in BOOLEAN
    /\ opts \in [overflow : Policies, mismatch : Policies]
    /\ doc = NullN /\ scopes = <<RootScope>> /\ err = "None" /\ done = TRUE
    /\ context = <<>> /\ last = NoLast /\ cont = <<>> /\ env = NoEnv
    /\ \E T \in WideTypes : \E w \in WideValues(T) : conv = Start("integer", IntV(T, w))

\* SaveObject<TArchive>(value, outputArchive): the root SerializeValue and, for
\* the JSON archives, the serialization of the number to text.
CallSaveObject ==
    /\ CanConvert("integer") /\ Cur.v.loaded
    /\ LET T == Cur.v.ttype
           n == IF backend = "BinStub" THEN StubSaveInteger(T, Cur.v.bits)
                ELSE IF backend = "CppRest" THEN CppRestSaveInteger(T, Cur.v.bits)
                ELSE RapidJsonSaveInteger(T, Cur.v.bits)
       IN  Converted("SaveObject",
                     Val("archive", [ttype |-> T,
                                     data |-> IF backend = "BinStub" THEN n
                                              ELSE JsonNumberText(n)]))
    /\ UNCHANGED archiveVars

\* LoadObject<TArchive>(actual, outputArchive) into the type that was saved:
\* for the JSON archives the parse of the text, then the root SerializeValue.
CallLoadObject ==
    /\ CanConvert("archive")
    /\ LET T == Cur.v.ttype
           r == IF backend = "BinStub" THEN StubLoadInteger(Cur.v.data, T, opts)
                ELSE IF backend = "CppRest"
                THEN CppRestLoadInteger(JsonParseNumber(Cur.v.data), T)
                ELSE RapidJsonLoadInteger(JsonParseNumber(Cur.v.data), T, asserts)
       IN  IF r.err = "None" THEN Converted("LoadObject", Val("integer", r.value))
           ELSE Failed("LoadObject", r.err)
    /\ UNCHANGED archiveVars

RoundTripNext ==
    \/ CallSaveObject
    \/ CallLoadObject

SpecRoundTrip == RoundTripInit /\ [][RoundTripNext]_vars

\* C25: saving a value of an integer type and loading it back into the same
\* type gives the value exactly, the limits of the type included (int64 min,
\* uint64 max, uint8 min and max).
C25_IntegerRoundTrip ==
    \A k \in 1..MaxConvSteps :
        Returned(k, "SaveObject") =>
            /\ ~Threw(k + 1, "LoadObject", conv.err)
            /\ Returned(k + 1, "LoadObject") => conv.vals[k + 2] = conv.vals[k]

\* int64 min went through the cpprest archive as the text of a negative number
\* of magnitude 2^63 and came back.
C25_Witness ==
    /\ backend = "CppRest" /\ Returned(1, "SaveObject") /\ Returned(2, "LoadObject")
    /\ conv.vals[1].v = IntV("int64", <<32768, 0, 0, 0>>)
    /\ conv.vals[2].v.data = [neg |-> TRUE, mag |-> <<32768, 0, 0, 0>>]
    /\ conv.vals[3].v = IntV("int64", <<32768, 0, 0, 0>>)

\* ------------------------------------------------------------ validators
\* Longest string or container given to the size validators.
MaxFieldSize == 3

\* MinSize::Validate, on the size() of the field
MinSizeValidate(mMinSize, size, isLoaded) ==
    IF size >= mMinSize THEN ""
    ELSE "The minimum size of this field should be " \o ConvertToString(mMinSize) \o "."

\* MaxSize::Validate, on the size() of the field
MaxSizeValidate(mMaxSize, size, isLoaded) ==
    IF size < mMaxSize THEN ""
    ELSE "The maximum size of this field should be not greater than "
            \o ConvertToString(mMaxSize) \o "."

\* A field given to a validator: a number, or a string of some size, and
\* whether the archive loaded it.
ValidatorsInit ==
    /\ backend = "BinStub" /\ mode = "Load" /\ asserts = TRUE
    /\ opts = [overflow |-> "ThrowError", mismatch |-> "ThrowError"]
    /\ doc = NullN /\ scopes = <<RootScope>> /\ err = "None" /\ done = TRUE
    /\ context = <<>> /\ last = NoLast /\ cont = <<>> /\ env = NoEnv
    /\ \E isLoaded \in BOOLEAN :
        \/ \E value \in -1..(MaxFieldSize + 1) :
                conv = Start("number", [value |-> value, isLoaded |-> isLoaded])
        \/ \E size \in 0..(MaxFieldSize + 1) :
                conv = Start("string", [value |-> [i \in 1..size |-> "x"],
                                        isLoaded |-> isLoaded])

\* The outcome of one validator: its arguments, the field, and the message
\* ("" for std::nullopt).
Outcome(a, b, field, msg) == [a |-> a, b |-> b, field |-> field, msg |-> msg]

\* Range(min, max).Validate(value, isLoaded)
CallRangeValidate ==
    /\ CanConvert("number")
    /\ \E mMin \in 0..MaxFieldSize, mMax \in 0..MaxFieldSize :
        Converted("RangeValidate",
                  Val("outcome", Outcome(mMin, mMax, Cur.v,
                        RangeValidate(mMin, mMax, Cur.v.value, Cur.v.isLoaded))))
    /\ UNCHANGED archiveVars

\* MinSize(n).Validate(value, isLoaded)
CallMinSizeValidate ==
    /\ CanConvert("string")
    /\ \E n \in 0..MaxFieldSize :
        Converted("MinSizeValidate",
                  Val("outcome", Outcome(n, n, Cur.v,
                        MinSizeValidate(n, Len(Cur.v.value), Cur.v.isLoaded))))
    /\ UNCHANGED archiveVars

\* MaxSize(n).Validate(value, isLoaded)
CallMaxSizeValidate ==
    /\ CanConvert("string")
    /\ \E n \in 0..MaxFieldSize :
        Converted("MaxSizeValidate",
                  Val("outcome", Outcome(n, n, Cur.v,
                        MaxSizeValidate(n, Len(Cur.v.value), Cur.v.isLoaded))))
    /\ UNCHANGED archiveVars

ValidatorsNext ==
    \/ CallRangeValidate
    \/ CallMinSizeValidate
    \/ CallMaxSizeValidate

SpecValidators == ValidatorsInit /\ [][ValidatorsNext]_vars

\* C26: Range(min, max).Validate reports a failure iff the value is outside
\* [min, max): min itself passes, max itself fails, and the result is the same
\* whether or not the field was loaded.
C26_RangeHalfOpen ==
    \A k \in 1..MaxConvSteps :
        Returned(k, "RangeValidate") =>
            LET r == conv.vals[k + 1].v
            IN  /\ r.msg # "" <=> ~(r.a <= r.field.value /\ r.field.value < r.b)
                /\ r.msg = RangeValidate(r.a, r.b, r.field.value, ~r.field.isLoaded)

\* Range(0, 2) rejected 2, a field that was loaded.
C26_Witness ==
    /\ Returned(1, "RangeValidate")
    /\ conv.vals[2].v.a = 0 /\ conv.vals[2].v.b = 2
    /\ conv.vals[2].v.field = [value |-> 2, isLoaded |-> TRUE]
    /\ conv.vals[2].v.msg = "Value must be between 0 and 2"

\* C27: MaxSize(n).Validate accepts a string or container iff its size is not
\* greater than n (size n passes, size n + 1 fails), and MinSize(n).Validate
\* accepts it iff its size is greater than or equal to n.
C27_SizeValidators ==
    \A k \in 1..MaxConvSteps :
        LET r == conv.vals[k + 1].v
        IN  /\ Returned(k, "MaxSizeValidate") => (r.msg = "" <=> Len(r.field.value) <= r.a)
            /\ Returned(k, "MinSizeValidate") => (r.msg = "" <=> Len(r.field.value) >= r.a)

\* ------------------------------------------------- the input of a Load call
\* Longest input text made of the sampled characters.
MaxTextLen == 3

\* The position of the first character at or behind pos that is not a space.
RECURSIVE JsonSkip(_, _)
JsonSkip(text, pos) ==
    IF pos <= Len(text) /\ text[pos] = " " THEN JsonSkip(text, pos + 1) ELSE pos

\* The JSON parsers on the fragment of JSON the inputs use: numbers without
\* sign, fraction or leading zero, and arrays. The value that starts at pos
\* and the position behind it.
RECURSIVE JsonValueAt(_, _)
RECURSIVE JsonArrayAt(_, _, _)
JsonArrayAt(text, pos, items) ==
    LET e == JsonValueAt(text, JsonSkip(text, pos))
        p == JsonSkip(text, e.pos)
    IN  IF ~e.ok \/ p > Len(text) THEN NotParsed
        ELSE IF text[p] = "," THEN JsonArrayAt(text, p + 1, Append(items, e.value))
        ELSE IF text[p] = "]"
        THEN Parsed(p + 1, ArrN(Append(items, e.value), Len(items) + 1))
        ELSE NotParsed
JsonValueAt(text, pos) ==
    IF pos > Len(text) THEN NotParsed
    ELSE IF text[pos] \in DigitChars
    THEN LET end == DigitsEnd(text, pos)
         IN  IF text[pos] = "0" /\ end > pos + 1 THEN NotParsed
             ELSE Parsed(end, IntN(DigitsValue(text, pos, end)))
    ELSE IF text[pos] = "["
    THEN LET p == JsonSkip(text, pos + 1)
         IN  IF p <= Len(text) /\ text[p] = "]" THEN Parsed(p + 1, ArrN(<<>>, 0))
             ELSE JsonArrayAt(text, pos + 1, <<>>)
    ELSE NotParsed

\* web::json::value::parse(input, error) and Document::Parse: one value with
\* nothing but spaces around it, or an error.
JsonParse(text) ==
    LET r == JsonValueAt(text, JsonSkip(text, 1))
    IN  IF r.ok /\ JsonSkip(text, r.pos) > Len(text)
        THEN [error |-> FALSE, value |-> r.value]
        ELSE [error |-> TRUE, value |-> NullN]

\* The mutation of the constructors that ignores the parser's error.
RootScopeLoadIgnoringError(b, source) ==
    IF b = "CppRest" /\ source.form = "stream" /\ source.utfType # "Utf8"
    THEN [err |-> "UnsupportedEncoding", value |-> NullN]
    ELSE [err |-> "None", value |-> JsonParse(source.text).value]

\* The Load-mode constructors of JsonRootScope (from a string, from a stream
\* after Convert::DetectEncoding) and of RapidJsonRootScope: the exception
\* thrown, or the parsed mRootJson.
RootScopeLoad(b, source) ==
    IF b = "CppRest" /\ source.form = "stream" /\ source.utfType # "Utf8"
    THEN [err |-> "UnsupportedEncoding", value |-> NullN]
    ELSE LET parsed == JsonParse(source.text)
         IN  IF parsed.error THEN [err |-> "ParsingError", value |-> NullN]
             ELSE [err |-> "None", value |-> parsed.value]

\* The root scope of a Load call is constructed from the input.
ConstructRootScope ==
    /\ mode = "Load" /\ ~env.root /\ err = "None" /\ ~done
    /\ LET r == RootScopeLoad(backend, env.source)
       IN  /\ err' = r.err
           /\ doc' = r.value
           /\ env' = [env EXCEPT !.root = r.err = "None"]
    /\ last' = Op("RootScope")
    /\ UNCHANGED <<callVars, scopes, done, context, conv, cont>>

\* The input texts: every text of up to MaxTextLen of the sampled characters,
\* and the malformed text of ThrowExceptionWhenBadSyntaxInSource.
InputTexts ==
    UNION {[1..n -> {"1", "0", "[", "]", ",", " ", "}"}] : n \in 0..MaxTextLen}
        \cup {<<"1", "0", " ", "}", "}">>}

\* A Load call before its root scope exists: the input is a string, or a
\* stream in which DetectEncoding finds some encoding (the wide streams of
\* RapidJson carry none to detect).
InputInit ==
    /\ backend \in {"CppRest", "RapidJson"} /\ mode = "Load" /\ asserts = TRUE
    /\ opts = [overflow |-> "ThrowError", mismatch |-> "ThrowError"]
    /\ doc = NullN /\ scopes = <<RootScope>> /\ err = "None" /\ done = FALSE
    /\ context = <<>> /\ last = NoLast /\ conv = NoConv /\ cont = <<>>
    /\ \E text \in InputTexts, form \in {"string", "stream"},
          utfType \in {"Utf8", "Utf16Le", "Utf32Be"} :
            /\ (form = "string" \/ backend = "RapidJson") => utfType = "Utf8"
            /\ env = [NoEnv EXCEPT !.root = FALSE, !.source = Source(form, text, utfType)]

InputNext ==
    \/ ConstructRootScope
    \/ RootSerializeValue
    \/ RootOpenArrayScope
    \/ ArrSerializeValue
    \/ CloseScope
    \/ LoadObjectEnd

SpecInput == InputInit /\ [][InputNext]_vars

ConstructionErrors == {"ParsingError", "UnsupportedEncoding"}

\* The outcome of the construction, and that a failed one is the end of the call.
C28_State ==
    /\ last.op = "RootScope" =>
        /\ (env.source.form = "stream" /\ env.source.utfType # "Utf8")
                => err = "UnsupportedEncoding"
        /\ (env.source.form = "string" \/ env.source.utfType = "Utf8")
                => (err = "ParsingError" <=> JsonParse(env.source.text).error)
        /\ env.source.text = <<"1", "0", " ", "}", "}">> => err \in ConstructionErrors
    /\ err \in ConstructionErrors => (last.op = "RootScope" /\ ~env.root)
    /\ ~env.root => last.op \in {"none", "RootScope"}

\* C28: constructing a Load-mode root scope from malformed input raises
\* ParsingError during the construction, before any scope operation can run,
\* so that the target of the call is not touched; constructing it from a
\* stream whose detected encoding is not UTF-8 raises UnsupportedEncoding
\* before any parsing.
C28_MalformedInputRejected ==
    []C28_State /\ [][err \notin ConstructionErrors /\ (~env.root => last'.op = "RootScope")]_vars

\* "10 }}" given as a string to the cpprest archive ended the call with ParsingError.
C28_Witness ==
    /\ backend = "CppRest" /\ env.source = Source("string", <<"1", "0", " ", "}", "}">>, "Utf8")
    /\ last.op = "RootScope" /\ err = "ParsingError" /\ ~env.root

\* C29: loading the JSON root value 1 (an integer) into a bool target sets the
\* target to true, and loading the JSON root integer 100 into a float target
\* sets the target to 100.
C29_RootBoolAndFloatFromInteger ==
    (mode = "Load" /\ last.op = "RootSerializeValue" /\ last.src.kind = "Int") =>
        /\ (last.src.num = 1 /\ last.ttype = "bool") => (last.loaded /\ last.num = 1)
        /\ (last.src.num = 100 /\ last.ttype \in FloatTypes) => (last.loaded /\ last.num = 100)

\* ------------------------------------------------------ one call after another
\* The top-level calls of one run.
MaxCalls == 2

\* The mutation in which the calls share one context that is never cleared.
NewContextShared(previous) == previous

\* The SerializationContext a top-level call starts with, whatever the
\* context of the call before holds: a new, empty one.
NewContext(previous) == <<>>

\* The documents the Load calls read: field "a" valid, of the wrong type,
\* null or missing.
CallDocs ==
    {ObjN(<<"a", "b">>, <<v, IntN(5)>>) : v \in ObjVals} \cup {ObjN(<<"b">>, <<IntN(5)>>)}

\* The calls of TestValidationForNamedValues and of the validation sample.
CallsInit ==
    /\ backend \in {"BinStub", "CppRest"} /\ asserts = TRUE
    /\ opts = [overflow |-> "Skip", mismatch |-> "Skip"]
    /\ mode \in {"Load", "Save"}
    /\ IF mode = "Load" THEN doc \in CallDocs ELSE doc = NullN
    /\ scopes = <<RootScope>> /\ err = "None" /\ done = FALSE
    /\ context = <<>> /\ last = NoLast /\ conv = NoConv /\ cont = <<>>
    /\ env = NoEnv

\* The next LoadObject or SaveObject of the caller, after the call before
\* returned or threw: its own root scope, its own context.
StartCall ==
    /\ (done \/ err # "None") /\ env.call < MaxCalls
    /\ \E m \in {"Load", "Save"} :
         /\ mode' = m
         /\ IF m = "Load" THEN doc' \in CallDocs ELSE doc' = NullN
    /\ scopes' = <<RootScope>> /\ err' = "None" /\ done' = FALSE
    /\ context' = NewContext(context)
    /\ last' = Op("StartCall")
    /\ env' = [env EXCEPT !.call = @ + 1, !.earlier = context]
    /\ UNCHANGED <<backend, asserts, opts, conv, cont>>

CallsNext ==
    \/ RootOpenObjectScope
    \/ ObjSerializeValue
    \/ CloseScope
    \/ LoadObjectEnd
    \/ LoadObjectEndContext
    \/ SaveObjectEnd
    \/ StartCall

SpecCalls == CallsInit /\ [][CallsNext]_vars

\* A call starts with an empty context, a Save call keeps it empty, and what
\* is recorded at the path of a field is what the validators of this call
\* said of it, nothing more.
C30_State ==
    /\ last.op = "StartCall" => DOMAIN context = {}
    /\ mode = "Save" => DOMAIN context = {}
    /\ (mode = "Load" /\ last.op = "ObjSerializeValue" /\ err = "None") =>
          LET msgs == ValidationMessages(last.validators, last.num, last.loaded)
          IN  IF msgs = <<>> THEN last.path \notin DOMAIN context
              ELSE last.path \in DOMAIN context /\ context[last.path] = msgs

\* The context changes when a call starts or when a field of the call under
\* way is validated, and then at the path of that field alone.
C30_Step ==
    context' # context =>
        \/ last'.op = "StartCall"
        \/ /\ last'.op = "ObjSerializeValue" /\ mode = "Load"
           /\ DOMAIN context' = DOMAIN context \cup {last'.path}
           /\ \A q \in DOMAIN context : q # last'.path => context'[q] = context[q]

\* C30: every top-level Load or Save call starts with an empty validation
\* context and owns it for the whole call: whatever the sequence of calls, the
\* failures one call recorded are never reported by a later call and never
\* make it invalid.
C30_ContextPerCall == []C30_State /\ [][C30_Step]_vars

\* After a call that recorded failures, a later Load call ended valid.
C30_Witness ==
    /\ env.call > 1 /\ DOMAIN env.earlier # {}
    /\ mode = "Load" /\ done /\ last.op = "LoadObject" /\ err = "None"
    /\ DOMAIN context = {}

\* ------------------------------------------------ opening scopes on Load
OpenByKeyOps == {"ObjOpenObject", "ObjOpenArray"}
OpenNextOps == {"ArrOpenObject", "ArrOpenArray"}
RequestedKind(op) == IF op \in {"ObjOpenObject", "ArrOpenObject"} THEN "Object" ELSE "Array"

\* The scope the last open operation was called on, and its node.
OpenedFrom == IF last.opened THEN scopes[Len(scopes) - 1] ELSE Top

\* The position of the member or element the last open operation addressed,
\* 0 when the key is absent or the array was at its end.
Addressed ==
    LET parent == NodeAt(doc, OpenedFrom.addr)
    IN  IF last.op \in OpenByKeyOps THEN FindMember(parent, last.key)
        ELSE IF last.idx < Len(parent.items) THEN last.idx + 1 ELSE 0

\* C31: in Load mode OpenObjectScope and OpenArrayScope return no scope and
\* raise no error when the addressed member or element exists but is not of
\* the requested kind, and when the requested key is absent from the object;
\* they return a scope on the addressed node when it is of the requested kind.
C31_OpenOnLoadChecksKind ==
    (mode = "Load" /\ last.op \in OpenByKeyOps \cup OpenNextOps) =>
        LET parent == NodeAt(doc, OpenedFrom.addr)
        IN  /\ (Addressed # 0 /\ parent.items[Addressed].kind # RequestedKind(last.op))
                    => (~last.opened /\ err = "None")
            /\ (last.op \in OpenByKeyOps /\ Addressed = 0)
                    => (~last.opened /\ err = "None")
            /\ (Addressed # 0 /\ parent.items[Addressed].kind = RequestedKind(last.op))
                    => /\ last.opened /\ err = "None"
                       /\ Top.addr = Append(OpenedFrom.addr, Addressed)
                       /\ Top.kind = RequestedKind(last.op)

\* OpenObjectScope("a") on {"a":[{"b":1}]} returned no scope and no error.
C31_Witness ==
    /\ mode = "Load" /\ doc = PathDoc /\ last.op = "ObjOpenObject" /\ last.key = "a"
    /\ ~last.opened /\ err = "None" /\ Len(scopes) = 2

\* ------------------------------------------------ opening scopes on Save
OpenOps == OpenByKeyOps \cup OpenNextOps \cup {"RootOpenObject", "RootOpenArray"}

\* C32: in Save mode OpenObjectScope and OpenArrayScope(arraySize) attach a new
\* node of the requested kind that is empty when the child scope is returned,
\* so that an array holds exactly as many elements as were written through its
\* scope, whatever the declared arraySize.
C32_OpenOnSaveAttachesEmptyNode ==
    /\ (mode = "Save" /\ last.op \in OpenOps /\ last.opened) =>
            /\ TopNode.kind = Top.kind
            /\ TopNode.keys = <<>> /\ TopNode.items = <<>>
    /\ (mode = "Save" /\ Top.kind = "Array" /\ ScopeIntact) =>
            Len(TopNode.items) = WrittenCount(backend, Top, TopNode)

\* ------------------------------------------------------ absent members
\* SerializeValue(key, value) of an object scope in Load mode, for a key the
\* object does not hold.
C33_Step ==
    (mode = "Load" /\ last'.op = "ObjSerializeValue"
        /\ FindMember(TopNode, last'.key) = 0) =>
        /\ ~last'.loaded /\ ~last'.present
        /\ err' = "None"
        /\ last'.num = last'.priorNum /\ last'.str = last'.priorStr
        /\ doc' = doc
        /\ Len(scopes') = Len(scopes)
        /\ scopes' = WithField(scopes, scopes'[Len(scopes')].field)

\* C33: in Load mode, SerializeValue on an object scope for a key that is not
\* a member of the object returns false, raises no error, and leaves the
\* target, the scope and the document as they were.
C33_AbsentKeyLeavesAllUnchanged == [][C33_Step]_vars

\* Key "a" was absent from {"b":5}; the target that held 7 still holds 7.
C33_Witness ==
    /\ mode = "Load" /\ last.op = "ObjSerializeValue" /\ last.key = "a"
    /\ FindMember(TopNode, "a") = 0 /\ ~last.loaded /\ err = "None"
    /\ last.priorNum = 7 /\ last.num = 7

\* ------------------------------------------------ the cursor of an array scope
\* The cursor of every Load-mode array scope lies within its array.
C34_State ==
    mode = "Load" =>
        \A i \in 1..Len(scopes) :
            scopes[i].kind = "Array" =>
                /\ 0 <= scopes[i].mIndex
                /\ scopes[i].mIndex <= Len(NodeAt(doc, scopes[i].addr).items)

\* No step moves a cursor back; an element operation that does not raise
\* OutOfRange moves the cursor of its scope on by one, and what it did not
\* load it left as it was.
C34_Step ==
    mode = "Load" =>
        /\ \A i \in 1..Len(scopes) :
              (i <= Len(scopes') /\ scopes[i].kind = "Array") =>
                    scopes'[i].mIndex >= scopes[i].mIndex
        /\ (last'.op \in ArrayOps /\ err' # "OutOfRange") =>
                scopes'[Len(scopes)].mIndex = Top.mIndex + 1
        /\ (last'.op = "ArrSerializeValue" /\ ~last'.loaded) =>
                (last'.num = last'.priorNum /\ last'.str = last'.priorStr)

\* C34: the cursor of a Load-mode array scope over n elements stays within
\* 0..n; every element operation that does not raise OutOfRange advances it by
\* exactly one, also when the element is not of the requested kind (the element
\* is consumed, the target unchanged); no operation decreases or wraps it.
C34_CursorAdvancesByOne == []C34_State /\ [][C34_Step]_vars

\* ------------------------------------------- civil fields of a Unix time
\* The date of a civil time.
DateOf(utc) == <<utc.tm_year, utc.tm_mon, utc.tm_mday>>

\* C35: for every Unix time t, negative ones included, UnixTimeToUtc(t) has
\* its month in 1..12, day in 1..31, hour in 0..23, minute and second in
\* 0..59, and the date changes exactly at the multiples of 86400 seconds: the
\* date of t is the date of the last multiple of 86400 up to t, the clock
\* counts the seconds since then, and one second earlier the date is another.
C35_CivilFieldsInRange ==
    \A k \in 1..MaxConvSteps :
        Returned(k, "UnixTimeToUtc") =>
            LET t == conv.vals[k].v
                utc == conv.vals[k + 1].v
                midnight == t - (t % 86400)
            IN  /\ utc.tm_mon \in 1..12 /\ utc.tm_mday \in 1..31
                /\ utc.tm_hour \in 0..23 /\ utc.tm_min \in 0..59 /\ utc.tm_sec \in 0..59
                /\ utc.tm_hour * 3600 + utc.tm_min * 60 + utc.tm_sec = t % 86400
                /\ DateOf(utc) = DateOf(UnixTimeToUtc(midnight))
                /\ DateOf(utc) # DateOf(UnixTimeToUtc(midnight - 1))
                /\ DateOf(utc) # DateOf(UnixTimeToUtc(midnight + 86400))

\* One second before midnight of the day before the epoch: 1969-12-30 23:59:59.
C35_Witness ==
    /\ Returned(1, "UnixTimeToUtc")
    /\ conv.vals[1].v = -86401
    /\ conv.vals[2].v = Tm(1969, 12, 30, 23, 59, 59)

\* ------------------------------------------------- the DaysInMonth table
Decoders == {"StringToTmExt", "StringToTimePoint"}

\* The third call of parseDatetimePart in parseDatetime: whether the year and
\* the month were parsed, and the index utc.tm_mon - 1 then used to read
\* DaysInMonth.
DaysInMonthIndex(in) ==
    LET year == parseDatetimePart(in, 1, 0, "-")
        mon == IF year.ok THEN parseDatetimePart(in, year.pos, 12, "-") ELSE NotParsed
    IN  [reached |-> mon.ok, index |-> mon.value - 1]

\* C36: while an ISO-8601 text is decoded, the index used to read the
\* DaysInMonth table (the parsed month minus 1) is within 0..11 for every
\* input that reaches the check of the day of the month.
C36_DaysInMonthIndexInBounds ==
    \A k \in 1..MaxConvSteps :
        (k <= Len(conv.fns) /\ conv.fns[k] \in Decoders) =>
            LET ix == DaysInMonthIndex(conv.vals[k].v)
            IN  ix.reached => ix.index \in 0..11

\* C37: ISO-8601 decoding accepts only dates of the proleptic Gregorian
\* calendar, 29 February only in leap years, so that for every accepted text
\* the civil fields of UnixTimeToUtc(UtcToUnixTime(decoded)) are the decoded
\* ones (compared for the dates whose seconds a 32-bit integer holds).
C37_DecodedDatesExist ==
    \A k \in 1..MaxConvSteps :
        Returned(k, "StringToTmExt") =>
            LET utc == conv.vals[k + 1].v
            IN  /\ utc.tm_mon = 2 /\ utc.tm_mday = 29 => IsLeap(utc.tm_year)
                /\ ~BeyondRep(utc) =>
                        UnixTimeToUtc(UtcToUnixTime(utc))
                            = Tm(utc.tm_year, utc.tm_mon, utc.tm_mday,
                                 utc.tm_hour, utc.tm_min, utc.tm_sec)

\* ---------------------------------------------- one value at the root
RootOps == {"RootSerializeValue", "RootOpenObject", "RootOpenArray"}

\* A root-level write when the root already holds a value, array or object.
C38_Step ==
    (mode = "Save" /\ last'.op \in RootOps /\ doc.kind # "Null") =>
        /\ err' = "AssertFailed"
        /\ doc' = doc

\* C38: a Save-mode root scope holds one top-level value: once a value, array
\* or object was written at the root, a second root-level write (SerializeValue,
\* OpenObjectScope, OpenArrayScope) is rejected as a contract violation in
\* every backend and never replaces the tree already built.
C38_SecondRootWriteRejected == [][C38_Step]_vars

\* ------------------------------------------------------ paths of child scopes
\* A Save call whose caller also writes under the empty key.
PathsInit ==
    /\ backend \in Backends /\ mode = "Save" /\ asserts \in BOOLEAN
    /\ opts = [overflow |-> "ThrowError", mismatch |-> "ThrowError"]
    /\ doc = NullN /\ scopes = <<RootScope>> /\ err = "None" /\ done = FALSE
    /\ context = <<>> /\ last = NoLast /\ conv = NoConv /\ cont = <<>>
    /\ env = [NoEnv EXCEPT !.keys = {"", "a"}]

PathsNext ==
    \/ RootOpenObjectScope
    \/ ObjOpenObjectScope
    \/ ObjOpenArrayScope
    \/ ObjSerializeValue
    \/ CloseScope
    \/ SaveObjectEnd

SpecPaths == PathsInit /\ [][PathsNext]_vars

\* C39: the path of a child scope opened from an object scope under key k is
\* the path of the parent, the path separator and k, for every key k, the empty
\* string included (an array scope appends the index of its element to it); a
\* scope without parent and without key has the empty path.
C39_ChildPathAppendsKey ==
    \A i \in 1..Len(scopes) :
        LET sc == scopes[i]
        IN  /\ (sc.parent # 0 /\ scopes[sc.parent].kind = "Object") =>
                    ScopeBaseGetPath(backend, mode, doc, scopes, i)
                        = GetPath(backend, mode, doc, scopes, sc.parent)
                            \o path_separator \o sc.key
            /\ (sc.parent = 0 /\ sc.key = "") =>
                    ScopeBaseGetPath(backend, mode, doc, scopes, i) = ""

\* ------------------------------------------------------------ timestamps
\* The documents a timestamp is loaded from: a timestamp and values of other
\* kinds, at the root, as elements and as members.
TimestampDocs ==
    LET Leaves == {TimeN(5), IntN(5), StrN("abc"), NullN}
    IN  Leaves \cup {ArrN(<<v, w>>, 2) : v, w \in Leaves}
            \cup {ObjN(<<"a", "b">>, <<v, TimeN(5)>>) : v \in Leaves}
            \cup {ObjN(<<"b">>, <<TimeN(5)>>)}

\* A Load call of the stub whose caller loads timestamps.
TimestampInit ==
    /\ backend = "BinStub" /\ mode = "Load" /\ asserts = TRUE
    /\ opts \in [overflow : Policies, mismatch : Policies]
    /\ doc \in TimestampDocs
    /\ scopes = <<RootScope>> /\ err = "None" /\ done = FALSE
    /\ context = <<>> /\ last = NoLast /\ conv = NoConv /\ cont = <<>>
    /\ env = [NoEnv EXCEPT !.types = {"timestamp"}]

TimestampNext ==
    \/ RootSerializeValue
    \/ RootOpenObjectScope
    \/ RootOpenArrayScope
    \/ ArrSerializeValue
    \/ ObjSerializeValue
    \/ CloseScope
    \/ LoadObjectEnd

SpecTimestamp == TimestampInit /\ [][TimestampNext]_vars

\* C40: in Load mode of BinArchiveStub, loading a timestamp (CBinTimestamp)
\* from a node of another kind returns false without raising and leaves the
\* target unchanged, in the root scope, the array scope and the object scope
\* (by key) alike.
C40_TimestampKindMismatch ==
    (backend = "BinStub" /\ mode = "Load" /\ last.op \in LoadValueOps
        /\ last.ttype = "timestamp" /\ last.src.kind \notin {"Timestamp", "None"}) =>
        /\ err = "None"
        /\ ~last.loaded
        /\ last.num = last.priorNum

====
